---------------------------- MODULE Spec2Model ----------------------------
(***************************************************************************)
(* A model of the OSRS NPC scraper: the Redis-backed URL frontier          *)
(* (src/src/scraper/url_manager.py), the rate-limited retrying fetcher     *)
(* (src/src/scraper/fetcher.py), the page record upsert                    *)
(* (src/src/storage/sql_crud.py) and the two-phase crawl                   *)
(* (src/src/scraper/crawler.py, src/scripts/npc_scrape.py).                *)
(*                                                                         *)
(* The module holds several specifications over one set of variables:     *)
(*   QueueSpec    one caller issuing URLManager operations one at a time   *)
(*   DequeueSpec  several callers popping one pending set concurrently     *)
(*   ConcSpec     several callers enqueueing and marking concurrently,     *)
(*                one Redis round trip per step                            *)
(*   FetchSpec    one call of URLFetcher.fetch_page, step by step          *)
(*   Spec         the single-worker crawl, run after run                   *)
(*   UpsertSpec   one call of add_crawled_page at a time, step by step     *)
(*   CleanupSpec  one scrape from start to close, under weak fairness      *)
(*   ManagerSpec  QueueSpec with the image retry queue                     *)
(*   ResetSpec    the crawl, with the reset script run at any moment       *)
(*   StoreSpec    one caller saving to and loading from the two file stores *)
(*   FilenameSpec url_to_filename applied to every short URL               *)
(*   ParseSpec    parse_npc_list_page applied to every small list page     *)
(* A specification keeps the variables of the others at their initial      *)
(* values.                                                                 *)
(***************************************************************************)
EXTENDS Integers, Sequences, FiniteSets, TLC

(***************************************************************************)
(* Bounds of the model.                                                    *)
(***************************************************************************)
\* The detail-page URLs of the wiki are 1..NumUrls.
NumUrls == 2
\* Callers sharing one Redis store in DequeueSpec and ConcSpec.
NumClients == 3
\* The longest list handed to add_multiple_to_queue.
MaxListLen == 2
\* The largest value of URLFetcher.retries that FetchSpec tries.
MaxRetries == 3
\* Runs of WikiNPCSpider.run against the same stores.
MaxRuns == 2
\* The list pages of the category are 1..NumListPages.
NumListPages == 2
\* List pages one run may fetch before the model stops following links.
MaxListFetches == 2
\* The largest cap (max_pages, max_npcs) a run is started with.
MaxCap == 1
MaxClock == 3
\* The longest URL, in characters after the host and the first "/", that
\* FilenameSpec tries.
MaxUrlLen == 3
\* The most list items one category container of a parsed page holds.
MaxItems == 2

URLs == 1..NumUrls
Clients == 1..NumClients
ListPages == 1..NumListPages

\* Python's None and SQL's NULL; an optional value x that is present is <<x>>.
None == <<>>
Some(x) == <<x>>

\* Sequences over S of length at most n.
SeqsUpTo(S, n) == UNION {[1..k -> S] : k \in 0..n}

\* The elements of a sequence.
Range(s) == {s[i] : i \in 1..Len(s)}

VARIABLES
    \* ---- the Redis store (url_manager.py:37-40) ----
    queue,          \* scraper:crawl_queue, a set: the pending URLs
    visited,        \* scraper:visited_urls, a set
    failed,         \* scraper:failed_urls, a hash: URL -> None or Some(error)
    image_queue,    \* scraper:image_retry_queue, a set of ImageData
    \* ---- QueueSpec ----
    last,           \* the operation the caller just made, with its argument and result
    \* ---- DequeueSpec and ConcSpec ----
    cpc,            \* per client: where it is inside its current operation
    cloc,           \* per client: the locals of its current operation
    handed,         \* how often get_next_url has returned each URL
    initial,        \* the pending set the concurrent dequeues started from
    \* ---- FetchSpec ----
    retries,        \* URLFetcher.retries
    attempt,        \* the loop variable of fetch_page
    fpc,            \* where fetch_page is
    response,       \* the local `response`: "unbound" until client.get returns one
    outcomes,       \* what each GET attempt of this call ended in, in order
    gets,           \* GETs sent by this call
    slept,          \* a rate-limit sleep has completed since the last GET
    unslept_gets,   \* GETs sent without a sleep since the previous one
    fresult,        \* how the call ended: None, or Some of a return or a raise
    \* ---- Spec: the crawl ----
    pc,             \* where the scrape process is
    runs,           \* runs of scrape_npcs started so far
    max_pages,      \* the caps this run was started with (None: no cap)
    max_npcs,
    current_url,    \* crawl_npc_list: the list page to fetch next, or None
    pages_crawled,  \* crawl_npc_list: list pages counted
    total_queued,   \* crawl_npc_list: URLs newly queued
    npc_links,      \* crawl_npc_list: the links of the page parsed last
    npc_url,        \* the URL crawl_all_npcs dequeued last, or None
    loc,            \* crawl_npc_page: its locals
    result,         \* the CrawlNPCResult returned last, or None
    totals,         \* crawl_all_npcs: its five counters
    table,          \* crawled_pages: URL -> None or Some(row)
    html_files,     \* the pages whose HTML file is in the HTML store
    image_files,    \* the images whose file is in the image store
    final_stats,    \* the CrawlStats run() returned, or None
    completed,      \* the URLs whose pipeline has reached mark_visited, in any run
    resources,      \* the connections the spider holds open: "fetcher", "redis"
    fault,          \* the store whose operation raised while the current list page or
                    \* URL was being processed, or None
    \* ---- UpsertSpec: add_crawled_page on its own ----
    clock,          \* the time datetime.now() gives
    upc,            \* where the call under way is
    ucall,          \* the call under way: its arguments, the time it read, the table before
    uresult,        \* how the last call ended: None, "committed" or "raised"
    row_count,      \* per URL: the rows of crawled_pages with that url
    last_args       \* per URL: the arguments of the last committed call, or None

frontierVars == <<queue, visited, failed, image_queue>>
queueVars == <<last>>
concVars == <<cpc, cloc, handed, initial>>
fetchVars == <<retries, attempt, fpc, response, outcomes, gets, slept, unslept_gets, fresult>>
crawlVars == <<pc, runs, max_pages, max_npcs, current_url, pages_crawled, total_queued,
               npc_links, npc_url, loc, result, totals, table, html_files, image_files,
               final_stats, completed, resources, fault>>
storeVars == <<clock, upc, ucall, uresult, row_count, last_args>>
vars == <<frontierVars, queueVars, concVars, fetchVars, crawlVars, storeVars>>

(***************************************************************************)
(* Redis commands, as functions of the value stored at the key.            *)
(***************************************************************************)
\* SADD replacing the set by the members it was given, as SET does a value.
sadd_replace(set, values) == [set |-> values, added |-> Cardinality(values \ set)]

\* SADD counting every member it was given, those already in the set included.
sadd_count_all(set, values) == [set |-> set \cup values, added |-> Cardinality(values)]

\* SADD key v1 v2 ...: the new set, and the number of members newly added.
sadd(set, values) == [set |-> set \cup values, added |-> Cardinality(values \ set)]

\* SPOP that may also return nil while the set has members.
spop_choices_nil_any(set) == {None} \cup {Some(u) : u \in set}

\* SPOP key: the values it may return (nil for an empty set) ...
spop_choices(set) == IF set = {} THEN {None} ELSE {Some(u) : u \in set}

\* SPOP leaving the returned member in the set, as SRANDMEMBER does.
spop_rest_keep(set, popped) == set

\* ... and the set it leaves: the returned member is removed in the same command.
spop_rest(set, popped) == IF popped = None THEN set ELSE set \ {popped[1]}

\* HSET key field value: the last write of a field wins.
hset(hash, field, value) == [hash EXCEPT ![field] = Some(value)]

\* HLEN key.
hlen(hash) == Cardinality({f \in DOMAIN hash : hash[f] # None})

(***************************************************************************)
(* URLManager (url_manager.py), each method as a function of the store.    *)
(***************************************************************************)
is_visited(v, url) == url \in v

\* add_to_queue without its visited check.
add_to_queue_unchecked(q, v, url) ==
    [queue |-> sadd(q, {url}).set, ret |-> sadd(q, {url}).added > 0]

add_to_queue(q, v, url) ==
    IF is_visited(v, url)
    THEN [queue |-> q, ret |-> FALSE]
    ELSE [queue |-> sadd(q, {url}).set, ret |-> sadd(q, {url}).added > 0]

\* The list comprehension of add_multiple_to_queue.
new_urls(v, urls) == SelectSeq(urls, LAMBDA u : ~is_visited(v, u))

add_multiple_to_queue(q, v, urls) ==
    IF Len(urls) = 0
    THEN [queue |-> q, ret |-> 0]
    ELSE IF Len(new_urls(v, urls)) > 0
         THEN [queue |-> sadd(q, Range(new_urls(v, urls))).set,
               ret |-> sadd(q, Range(new_urls(v, urls))).added]
         ELSE [queue |-> q, ret |-> 0]

\* mark_visited without its SADD.
mark_visited_dropped(v, url) == v

mark_visited(v, url) == sadd(v, {url}).set

\* mark_failed without its HSET.
mark_failed_dropped(f, url, error) == f

mark_failed(f, url, error) == hset(f, url, error)

\* The texts fetch_page gives a FetchError, and the text of any other exception.
FetchCauses == {"HTTP error", "Request timed out", "Request error", "Unexpected error"}
Errors == FetchCauses \cup {"Exception"}

NoFailed == [u \in URLs |-> None]

\* What the other specifications leave untouched.
QueueIdle == last = [op |-> "none"]
ConcIdle ==
    /\ cpc = [c \in Clients |-> "idle"]
    /\ cloc = [c \in Clients |-> None]
    /\ handed = [u \in URLs |-> 0]
    /\ initial = {}
FetchIdle ==
    /\ retries = 0
    /\ attempt = 0
    /\ fpc = "idle"
    /\ response = "unbound"
    /\ outcomes = <<>>
    /\ gets = 0
    /\ slept = FALSE
    /\ unslept_gets = 0
    /\ fresult = None
NoRows == [u \in URLs |-> None]
NoTotals == [crawled |-> 0, successful |-> 0, failed |-> 0,
             images_downloaded |-> 0, image_failures |-> 0]
NoLocals ==
    [branch |-> "none", html_file_size |-> 0, has_image |-> FALSE, image_url |-> None,
     image_filename |-> None, image_size_bytes |-> None, image_status |-> "not_found",
     error |-> ""]
CrawlIdle ==
    /\ pc = "idle"
    /\ runs = 0
    /\ max_pages = None
    /\ max_npcs = None
    /\ current_url = None
    /\ pages_crawled = 0
    /\ total_queued = 0
    /\ npc_links = <<>>
    /\ npc_url = None
    /\ loc = NoLocals
    /\ result = None
    /\ totals = NoTotals
    /\ table = NoRows
    /\ html_files = {}
    /\ image_files = {}
    /\ final_stats = None
    /\ completed = {}
    /\ resources = {}
    /\ fault = None
StoreIdle ==
    /\ clock = 0
    /\ upc = "idle"
    /\ ucall = None
    /\ uresult = None
    /\ row_count = [u \in URLs |-> 0]
    /\ last_args = [u \in URLs |-> None]
FrontierEmpty ==
    /\ queue = {}
    /\ visited = {}
    /\ failed = NoFailed
    /\ image_queue = {}

(***************************************************************************)
(* QueueSpec: one caller, one URLManager operation per step, clear_all     *)
(* left out.                                                               *)
(***************************************************************************)
QAddToQueue(url) ==
    /\ queue' = add_to_queue(queue, visited, url).queue
    /\ last' = [op |-> "add_to_queue", arg |-> url,
                ret |-> add_to_queue(queue, visited, url).ret]
    /\ UNCHANGED <<visited, failed, image_queue, concVars, fetchVars, crawlVars, storeVars>>

QAddMultipleToQueue(urls) ==
    /\ queue' = add_multiple_to_queue(queue, visited, urls).queue
    /\ last' = [op |-> "add_multiple_to_queue", arg |-> urls,
                ret |-> add_multiple_to_queue(queue, visited, urls).ret]
    /\ UNCHANGED <<visited, failed, image_queue, concVars, fetchVars, crawlVars, storeVars>>

QGetNextUrl ==
    \E popped \in spop_choices(queue) :
        /\ queue' = spop_rest(queue, popped)
        /\ last' = [op |-> "get_next_url", arg |-> None, ret |-> popped]
        /\ UNCHANGED <<visited, failed, image_queue, concVars, fetchVars, crawlVars, storeVars>>

QMarkVisited(url) ==
    /\ visited' = mark_visited(visited, url)
    /\ last' = [op |-> "mark_visited", arg |-> url, ret |-> None]
    /\ UNCHANGED <<queue, failed, image_queue, concVars, fetchVars, crawlVars, storeVars>>

QMarkFailed(url, error) ==
    /\ failed' = mark_failed(failed, url, error)
    /\ last' = [op |-> "mark_failed", arg |-> url, ret |-> None]
    /\ UNCHANGED <<queue, visited, image_queue, concVars, fetchVars, crawlVars, storeVars>>

QueueInit == FrontierEmpty /\ QueueIdle /\ ConcIdle /\ FetchIdle /\ CrawlIdle /\ StoreIdle

QueueNext ==
    \/ \E url \in URLs : QAddToQueue(url)
    \/ \E urls \in SeqsUpTo(URLs, MaxListLen) : QAddMultipleToQueue(urls)
    \/ QGetNextUrl
    \/ \E url \in URLs : QMarkVisited(url)
    \/ \E url \in URLs, error \in {"HTTP error", "Exception"} : QMarkFailed(url, error)

QueueSpec == QueueInit /\ [][QueueNext]_vars

(***************************************************************************)
(* C1, as stated: once mark_visited(u) has returned (u is in visited, and  *)
(* QueueSpec never clears), no later add_to_queue(u) returns True and no   *)
(* later get_next_url() returns u.                                         *)
(***************************************************************************)
C1_OnceVisitedNeverEnqueuedNorDequeued ==
    [][\A u \in URLs :
          u \in visited =>
              /\ ~(last'.op = "add_to_queue" /\ last'.arg = u /\ last'.ret)
              /\ ~(last'.op = "get_next_url" /\ last'.ret = Some(u))]_vars

(***************************************************************************)
(* C1, amended: once mark_visited(u) has returned, every later             *)
(* add_to_queue(u) returns False and no operation puts u into pending      *)
(* again; get_next_url() returns u afterwards only if u was still pending  *)
(* (mark_visited does not take u out of pending), and that removes it, so  *)
(* it does so at most once.                                                *)
(***************************************************************************)
C1_OnceVisitedNeverEnqueued ==
    [][\A u \in URLs :
          u \in visited =>
              /\ ~(last'.op = "add_to_queue" /\ last'.arg = u /\ last'.ret)
              /\ (u \in queue' => u \in queue)
              /\ (last'.op = "get_next_url" /\ last'.ret = Some(u)
                      => u \in queue /\ u \notin queue')]_vars

\* C1's case: add_to_queue(u) was called for a visited u and returned False.
C1_Witness ==
    /\ last.op = "add_to_queue"
    /\ last.arg \in visited
    /\ last.ret = FALSE
    /\ last.arg \notin queue

(***************************************************************************)
(* DequeueSpec: several callers of get_next_url on one store whose pending *)
(* set starts as any set of URLs; nobody enqueues. SPOP is one Redis       *)
(* command; decoding and returning its reply is a later step of the        *)
(* caller.                                                                 *)
(***************************************************************************)
DCall(c) ==
    /\ cpc[c] = "idle"
    /\ cpc' = [cpc EXCEPT ![c] = "spop"]
    /\ UNCHANGED <<cloc, handed, initial, frontierVars, queueVars, fetchVars, crawlVars, storeVars>>

DSpop(c) ==
    /\ cpc[c] = "spop"
    /\ \E popped \in spop_choices(queue) :
        /\ queue' = spop_rest(queue, popped)
        /\ cloc' = [cloc EXCEPT ![c] = popped]
    /\ cpc' = [cpc EXCEPT ![c] = "decode"]
    /\ UNCHANGED <<visited, failed, image_queue, handed, initial, queueVars, fetchVars, crawlVars, storeVars>>

DReturn(c) ==
    /\ cpc[c] = "decode"
    /\ handed' = IF cloc[c] = None
                 THEN handed
                 ELSE [handed EXCEPT ![cloc[c][1]] = @ + 1]
    /\ cpc' = [cpc EXCEPT ![c] = "idle"]
    /\ cloc' = [cloc EXCEPT ![c] = None]
    /\ UNCHANGED <<initial, frontierVars, queueVars, fetchVars, crawlVars, storeVars>>

DequeueInit ==
    /\ initial \in SUBSET URLs
    /\ queue = initial
    /\ visited = {}
    /\ failed = NoFailed
    /\ image_queue = {}
    /\ cpc = [c \in Clients |-> "idle"]
    /\ cloc = [c \in Clients |-> None]
    /\ handed = [u \in URLs |-> 0]
    /\ QueueIdle
    /\ FetchIdle
    /\ CrawlIdle
    /\ StoreIdle

DequeueNext ==
    \/ \E c \in Clients : DCall(c)
    \/ \E c \in Clients : DSpop(c)
    \/ \E c \in Clients : DReturn(c)

DequeueSpec == DequeueInit /\ [][DequeueNext]_vars

\* The callers whose SPOP has replied with u and who have not returned it yet.
Holding(u) == {c \in Clients : cpc[c] = "decode" /\ cloc[c] = Some(u)}

(***************************************************************************)
(* C2: concurrent get_next_url calls on a pending set of N distinct URLs   *)
(* hand out exactly those N URLs: every URL that was pending at the start  *)
(* is, at every moment, either still pending, or held by exactly one       *)
(* caller, or returned exactly once (no duplicate, no omission, nothing    *)
(* that was not pending); and a call gets None only when pending is empty, *)
(* from when on every call gets None.                                      *)
(***************************************************************************)
C2_AtMostOnceDequeue ==
    /\ \A u \in URLs :
          handed[u] + Cardinality(Holding(u)) + (IF u \in queue THEN 1 ELSE 0)
              = (IF u \in initial THEN 1 ELSE 0)
    /\ \A c \in Clients : cpc[c] = "decode" /\ cloc[c] = None => queue = {}
    /\ queue = {} =>
          \A c \in Clients : cpc[c] = "decode" =>
              cloc[c] = None \/ Cardinality(Holding(cloc[c][1])) = 1

\* C2's case: every URL was pending, all were returned, and a further call got None.
C2_Witness ==
    /\ initial = URLs
    /\ \A u \in URLs : handed[u] = 1
    /\ \E c \in Clients : cpc[c] = "decode" /\ cloc[c] = None

(***************************************************************************)
(* ConcSpec: several callers of add_to_queue, add_multiple_to_queue and    *)
(* mark_visited on one store. Each Redis command (SISMEMBER, SADD) is one  *)
(* step; a method that issues several commands takes several steps, and    *)
(* other callers' commands may run in between.                             *)
(***************************************************************************)
\* add_to_queue, line 52: is_visited(url), a SISMEMBER round trip.
CAddCheck(c, url) ==
    /\ cpc[c] = "idle"
    /\ IF is_visited(visited, url)
       THEN /\ cpc' = [cpc EXCEPT ![c] = "idle"]
            /\ cloc' = [cloc EXCEPT ![c] = [op |-> "add_to_queue", ret |-> FALSE]]
       ELSE /\ cpc' = [cpc EXCEPT ![c] = "atq_sadd"]
            /\ cloc' = [cloc EXCEPT ![c] = [op |-> "add_to_queue", url |-> url]]
    /\ UNCHANGED <<handed, initial, frontierVars, queueVars, fetchVars, crawlVars, storeVars>>

\* add_to_queue, lines 56-59: SADD, and the return of its count as a bool.
CAddSadd(c) ==
    /\ cpc[c] = "atq_sadd"
    /\ queue' = sadd(queue, {cloc[c].url}).set
    /\ cloc' = [cloc EXCEPT ![c] =
                   [op |-> "add_to_queue", ret |-> sadd(queue, {cloc[c].url}).added > 0]]
    /\ cpc' = [cpc EXCEPT ![c] = "idle"]
    /\ UNCHANGED <<visited, failed, image_queue, handed, initial, queueVars, fetchVars, crawlVars, storeVars>>

\* add_multiple_to_queue, lines 71-72: the call, and the return of 0 for an empty list.
CAddMultipleCall(c, urls) ==
    /\ cpc[c] = "idle"
    /\ IF Len(urls) = 0
       THEN /\ cpc' = [cpc EXCEPT ![c] = "idle"]
            /\ cloc' = [cloc EXCEPT ![c] = [op |-> "add_multiple_to_queue", ret |-> 0]]
       ELSE /\ cpc' = [cpc EXCEPT ![c] = "amq_filter"]
            /\ cloc' = [cloc EXCEPT ![c] =
                           [op |-> "add_multiple_to_queue", urls |-> urls,
                            i |-> 1, new_urls |-> <<>>]]
    /\ UNCHANGED <<handed, initial, frontierVars, queueVars, fetchVars, crawlVars, storeVars>>

\* add_multiple_to_queue, line 75: one is_visited round trip of the comprehension.
CAddMultipleFilter(c) ==
    /\ cpc[c] = "amq_filter"
    /\ cloc[c].i <= Len(cloc[c].urls)
    /\ cloc' = [cloc EXCEPT ![c] =
                   [@ EXCEPT !.i = @ + 1,
                             !.new_urls =
                                 IF is_visited(visited, cloc[c].urls[cloc[c].i])
                                 THEN @
                                 ELSE Append(@, cloc[c].urls[cloc[c].i])]]
    /\ UNCHANGED <<cpc, handed, initial, frontierVars, queueVars, fetchVars, crawlVars, storeVars>>

\* add_multiple_to_queue, lines 77-85: SADD of the URLs that passed the filter.
CAddMultipleSadd(c) ==
    /\ cpc[c] = "amq_filter"
    /\ cloc[c].i > Len(cloc[c].urls)
    /\ IF Len(cloc[c].new_urls) > 0
       THEN /\ queue' = sadd(queue, Range(cloc[c].new_urls)).set
            /\ cloc' = [cloc EXCEPT ![c] =
                           [op |-> "add_multiple_to_queue",
                            ret |-> sadd(queue, Range(cloc[c].new_urls)).added]]
       ELSE /\ queue' = queue
            /\ cloc' = [cloc EXCEPT ![c] = [op |-> "add_multiple_to_queue", ret |-> 0]]
    /\ cpc' = [cpc EXCEPT ![c] = "idle"]
    /\ UNCHANGED <<visited, failed, image_queue, handed, initial, queueVars, fetchVars, crawlVars, storeVars>>

\* mark_visited, line 108: one SADD.
CMarkVisited(c, url) ==
    /\ cpc[c] = "idle"
    /\ visited' = mark_visited(visited, url)
    /\ cloc' = [cloc EXCEPT ![c] = [op |-> "mark_visited", ret |-> 0]]
    /\ UNCHANGED <<queue, failed, image_queue, cpc, handed, initial, queueVars, fetchVars, crawlVars, storeVars>>

ConcInit == FrontierEmpty /\ QueueIdle /\ ConcIdle /\ FetchIdle /\ CrawlIdle /\ StoreIdle

ConcNext ==
    \/ \E c \in Clients, url \in URLs : CAddCheck(c, url)
    \/ \E c \in Clients : CAddSadd(c)
    \/ \E c \in Clients, urls \in SeqsUpTo(URLs, MaxListLen) : CAddMultipleCall(c, urls)
    \/ \E c \in Clients : CAddMultipleFilter(c)
    \/ \E c \in Clients : CAddMultipleSadd(c)
    \/ \E c \in Clients, url \in URLs : CMarkVisited(c, url)

ConcSpec == ConcInit /\ [][ConcNext]_vars

(***************************************************************************)
(* C4: under concurrent callers no URL is put into pending in a state in   *)
(* which it is already in visited: the visited check and the SADD of       *)
(* add_to_queue and add_multiple_to_queue act as one step.                 *)
(***************************************************************************)
C4_NoEnqueueOfVisited ==
    [][\A u \in URLs : u \notin queue /\ u \in queue' => u \notin visited]_vars

(***************************************************************************)
(* FetchSpec: one call of URLFetcher.fetch_page (fetcher.py:37-69), for    *)
(* every configured retries in 0..MaxRetries and every outcome of every    *)
(* GET attempt.                                                            *)
(***************************************************************************)
\* How one GET attempt can end: raise_for_status passes, or one of the four
\* except clauses of fetch_page takes the exception.
AttemptOutcomes ==
    {"2xx", "HTTPStatusError", "TimeoutException", "RequestError", "Exception"}
Retryable == {"HTTPStatusError", "TimeoutException", "RequestError"}

Returned(value) == Some([kind |-> "return", exc |-> "", text |-> value])
Raised(exc, cause) == Some([kind |-> "raise", exc |-> exc, text |-> cause])

\* for attempt in range(1, self.retries + 1): whether the loop has a next value.
in_range(a, r) == a <= r

\* The first statement of the loop body: the rate-limit sleep, on every attempt.
body_entry_unslept_first(a) == IF a = 1 THEN "get" ELSE "sleep"

body_entry(a) == "sleep"

\* `if attempt == self.retries` of the three retrying except clauses.
is_last_attempt_first(a, r) == a = 1

is_last_attempt(a, r) == a = r

\* The text of the FetchError raised for an exception of each kind.
cause_of(outcome) ==
    CASE outcome = "HTTPStatusError" -> "HTTP error"
      [] outcome = "TimeoutException" -> "Request timed out"
      [] outcome = "RequestError" -> "Request error"
      [] outcome = "Exception" -> "Unexpected error"

\* The handlers with the unexpected exception retried like a transport error.
after_attempt_retry_all(outcome, a, r) ==
    IF outcome = "2xx"
    THEN [fpc |-> "done", fresult |-> Returned("2xx")]
    ELSE IF is_last_attempt(a, r)
         THEN [fpc |-> "done", fresult |-> Raised("FetchError", cause_of(outcome))]
         ELSE [fpc |-> "loop", fresult |-> None]

\* What follows a GET attempt: the return of line 50, or the except clause.
after_attempt(outcome, a, r) ==
    IF outcome = "2xx"
    THEN [fpc |-> "done", fresult |-> Returned("2xx")]
    ELSE IF outcome \in Retryable
         THEN IF is_last_attempt(a, r)
              THEN [fpc |-> "done", fresult |-> Raised("FetchError", cause_of(outcome))]
              ELSE [fpc |-> "loop", fresult |-> None]
         ELSE [fpc |-> "done", fresult |-> Raised("FetchError", cause_of(outcome))]

\* `response = await self.client.get(url)` binds the local only when get returns:
\* with a response of any status, not when it raises.
response_after(outcome, old) ==
    CASE outcome = "2xx" -> "2xx"
      [] outcome = "HTTPStatusError" -> "non-2xx"
      [] OTHER -> old

\* The for statement: the next value of attempt, or the end of the loop.
FLoop ==
    /\ fpc = "loop"
    /\ IF in_range(attempt + 1, retries)
       THEN /\ attempt' = attempt + 1
            /\ fpc' = body_entry(attempt + 1)
       ELSE /\ attempt' = attempt
            /\ fpc' = "after_loop"
    /\ UNCHANGED <<retries, response, outcomes, gets, slept, unslept_gets, fresult,
                   frontierVars, queueVars, concVars, crawlVars, storeVars>>

\* await asyncio.sleep(random.randint(rate_limit - 1, rate_limit + 3))
FSleep ==
    /\ fpc = "sleep"
    /\ slept' = TRUE
    /\ fpc' = "get"
    /\ UNCHANGED <<retries, attempt, response, outcomes, gets, unslept_gets, fresult,
                   frontierVars, queueVars, concVars, crawlVars, storeVars>>

\* client.get, raise_for_status, and the return or the except clause that follows.
FGet(outcome) ==
    /\ fpc = "get"
    /\ gets' = gets + 1
    /\ unslept_gets' = IF slept THEN unslept_gets ELSE unslept_gets + 1
    /\ slept' = FALSE
    /\ outcomes' = Append(outcomes, outcome)
    /\ response' = response_after(outcome, response)
    /\ fpc' = after_attempt(outcome, attempt, retries).fpc
    /\ fresult' = after_attempt(outcome, attempt, retries).fresult
    /\ UNCHANGED <<retries, attempt, frontierVars, queueVars, concVars, crawlVars, storeVars>>

\* Lines 68-69, after the loop: `return response`, an UnboundLocalError when
\* no GET has bound the local.
FAfterLoop ==
    /\ fpc = "after_loop"
    /\ fpc' = "done"
    /\ fresult' = IF response = "unbound"
                  THEN Raised("UnboundLocalError", "response")
                  ELSE Returned(response)
    /\ UNCHANGED <<retries, attempt, response, outcomes, gets, slept, unslept_gets,
                   frontierVars, queueVars, concVars, crawlVars, storeVars>>

FetchInit ==
    /\ retries \in 0..MaxRetries
    /\ attempt = 0
    /\ fpc = "loop"
    /\ response = "unbound"
    /\ outcomes = <<>>
    /\ gets = 0
    /\ slept = FALSE
    /\ unslept_gets = 0
    /\ fresult = None
    /\ FrontierEmpty
    /\ QueueIdle
    /\ ConcIdle
    /\ CrawlIdle
    /\ StoreIdle

FetchNext ==
    \/ FLoop
    \/ FSleep
    \/ \E outcome \in AttemptOutcomes : FGet(outcome)
    \/ FAfterLoop

FetchSpec == FetchInit /\ [][FetchNext]_vars

(***************************************************************************)
(* C6: with retries = R >= 1, fetch_page sends at most R GETs; it returns  *)
(* on the first 2xx attempt (every earlier attempt failed, and no attempt  *)
(* follows); and when every attempt ends in a non-2xx status, a timeout or *)
(* a transport error it raises FetchError after exactly R attempts.        *)
(***************************************************************************)
C6_RetryBound ==
    retries >= 1 =>
        /\ gets <= retries
        /\ gets = Len(outcomes)
        /\ \A i \in 1..Len(outcomes) :
              outcomes[i] = "2xx" =>
                  /\ i = Len(outcomes)
                  /\ fpc = "done"
                  /\ fresult = Returned("2xx")
        /\ (fpc = "done" /\ \A i \in 1..Len(outcomes) : outcomes[i] \in Retryable) =>
              /\ gets = retries
              /\ fresult # None
              /\ fresult[1].kind = "raise"
              /\ fresult[1].exc = "FetchError"
        /\ (fpc # "done" /\ \A i \in 1..Len(outcomes) : outcomes[i] \in Retryable) =>
              gets < retries

\* C6's case: retries = 1 against a 404 endpoint, one attempt, then FetchError.
C6_Witness ==
    /\ retries = 1
    /\ outcomes = <<"HTTPStatusError">>
    /\ gets = 1
    /\ fpc = "done"
    /\ fresult = Raised("FetchError", "HTTP error")

(***************************************************************************)
(* C7: every call of fetch_page, for every retries value including 0, ends *)
(* either by returning the response of a 2xx attempt or by raising         *)
(* FetchError with a cause; nothing else escapes.                          *)
(***************************************************************************)
C7_BodyOrFetchError ==
    fpc = "done" =>
        \/ fresult = Returned("2xx")
        \/ /\ fresult[1].kind = "raise"
           /\ fresult[1].exc = "FetchError"
           /\ fresult[1].text \in FetchCauses

(***************************************************************************)
(* C8: every GET of a fetch_page call, the first included, is sent only    *)
(* after a rate-limit sleep that completed after the previous GET of the   *)
(* call (or after the call began).                                         *)
(***************************************************************************)
C8_SleepBeforeEveryGet ==
    /\ unslept_gets = 0
    /\ fpc = "get" => slept

\* C8's case: a second GET of the same call has been sent.
C8_Witness ==
    /\ gets >= 2
    /\ ~slept
    /\ unslept_gets = 0

(***************************************************************************)
(* C9: an attempt that fails with an error other than an HTTP status       *)
(* error, a timeout or a transport error makes fetch_page raise FetchError *)
(* on that attempt, whatever its number; no attempt follows it.            *)
(***************************************************************************)
C9_UnexpectedAbortsAtOnce ==
    \A i \in 1..Len(outcomes) :
        outcomes[i] = "Exception" =>
            /\ i = Len(outcomes)
            /\ gets = i
            /\ fpc = "done"
            /\ fresult = Raised("FetchError", "Unexpected error")

\* C9's case: the unexpected error strikes on the first attempt with retries left.
C9_Witness ==
    /\ retries >= 2
    /\ outcomes = <<"Exception">>
    /\ fpc = "done"
    /\ fresult = Raised("FetchError", "Unexpected error")

(***************************************************************************)
(* The page record store: SQLiteCRUDManager.add_crawled_page               *)
(* (sql_crud.py:37-91) on the crawled_pages table (db_models.py:9-43).     *)
(***************************************************************************)
\* The defaults of add_crawled_page's optional parameters.
default_args ==
    [has_image |-> FALSE, image_url |-> None, image_filename |-> None,
     image_status |-> None, image_size |-> 0, status |-> "success", html_file_size |-> 0]

\* The update path with image_status left alone.
updated_row_keep_status(row, now, a) ==
    [row EXCEPT
        !.npc_name = a.npc_name,
        !.content = a.html_filename,
        !.status = a.status,
        !.html_file_size = a.html_file_size,
        !.has_image = a.has_image,
        !.image_url = IF a.image_url # None THEN a.image_url ELSE @,
        !.image_filename = IF a.image_filename # None THEN a.image_filename ELSE @,
        !.image_size = a.image_size,
        !.updated_at = now]

\* The update path writing has_image, html_file_size and image_size only when
\* the call gives a truthy one, as it does for the image url.
updated_row_guarded_size(row, now, a) ==
    [row EXCEPT
        !.npc_name = a.npc_name,
        !.content = a.html_filename,
        !.status = a.status,
        !.html_file_size = IF a.html_file_size # 0 THEN a.html_file_size ELSE @,
        !.has_image = IF a.has_image THEN TRUE ELSE @,
        !.image_url = IF a.image_url # None THEN a.image_url ELSE @,
        !.image_filename = IF a.image_filename # None THEN a.image_filename ELSE @,
        !.image_status = IF a.image_status # None THEN a.image_status ELSE @,
        !.image_size = IF a.image_size # 0 THEN a.image_size ELSE @,
        !.updated_at = now]

\* The update path, lines 54-68: the row found is overwritten field by field,
\* its image url, filename and status only when the call gives one.
updated_row(row, now, a) ==
    [row EXCEPT
        !.npc_name = a.npc_name,
        !.content = a.html_filename,
        !.status = a.status,
        !.html_file_size = a.html_file_size,
        !.has_image = a.has_image,
        !.image_url = IF a.image_url # None THEN a.image_url ELSE @,
        !.image_filename = IF a.image_filename # None THEN a.image_filename ELSE @,
        !.image_status = IF a.image_status # None THEN a.image_status ELSE @,
        !.image_size = a.image_size,
        !.updated_at = now]

\* The insert path, lines 71-90: a new row; image_status falls back to the
\* column default when the call gives none.
inserted_row(now, a) ==
    [npc_name |-> a.npc_name,
     content |-> a.html_filename,
     status |-> a.status,
     html_file_size |-> a.html_file_size,
     crawled_at |-> now,
     updated_at |-> now,
     has_image |-> a.has_image,
     image_url |-> a.image_url,
     image_filename |-> a.image_filename,
     image_status |-> IF a.image_status # None THEN a.image_status ELSE Some("no_image"),
     image_size |-> a.image_size]

\* Line 52-53 with the query finding nothing, whatever the table holds.
row_found_never(t, url) == FALSE

\* Lines 52-53: the row with this url, if there is one.
row_found(t, url) == t[url] # None

\* The upsert as a whole, committed.
add_crawled_page(t, now, a) ==
    IF row_found(t, a.url)
    THEN [t EXCEPT ![a.url] = Some(updated_row(t[a.url][1], now, a))]
    ELSE [t EXCEPT ![a.url] = Some(inserted_row(now, a))]

(***************************************************************************)
(* Spec: the scrape process (npc_scrape.py:11-31) run again and again      *)
(* against the same Redis store, table and files: WikiNPCSpider.run        *)
(* (crawler.py:273-296) with crawl_npc_list, crawl_all_npcs and            *)
(* crawl_npc_page, one worker. A URL u stands for the detail page u;       *)
(* its name, file names, image URL and sizes are those derived from u.     *)
(***************************************************************************)
\* settings.max_retries, the retries of the spider's own URLFetcher.
settings_max_retries == 3

\* The attempt outcomes the wiki gives the crawl.
CrawlOutcomes == {"2xx", "HTTPStatusError", "TimeoutException"}

\* Every way fetch_page can end from attempt a on, by the code of FetchSpec.
RECURSIVE fetch_page_from(_, _, _)
fetch_page_from(a, r, resp) ==
    IF ~in_range(a, r)
    THEN {IF resp = "unbound" THEN Raised("UnboundLocalError", "response")
                              ELSE Returned(resp)}
    ELSE UNION {IF after_attempt(o, a, r).fpc = "done"
                THEN {after_attempt(o, a, r).fresult}
                ELSE fetch_page_from(a + 1, r, response_after(o, resp))
                : o \in CrawlOutcomes}

fetch_page_results == fetch_page_from(1, settings_max_retries, "unbound")

\* The cap test taking 0 for a cap: `is not None` for truthiness.
truthy_zero(cap) == cap # None

\* `if max_pages and ...`, `if max_npcs and ...`: None and 0 are both false.
truthy(cap) == cap # None /\ cap[1] # 0
\* The cap test with > for >=.
cap_reached_late(cap, count) == truthy(cap) /\ count > cap[1]

cap_reached(cap, count) == truthy(cap) /\ count >= cap[1]
Caps == {None} \cup {Some(n) : n \in 0..MaxCap}

\* crawl_npc_list, lines 188-191: add_to_queue for every link, counting the added.
RECURSIVE enqueue_all(_, _, _)
enqueue_all(q, v, links) ==
    IF Len(links) = 0
    THEN [queue |-> q, added |-> 0]
    ELSE LET first == add_to_queue(q, v, Head(links))
             rest == enqueue_all(first.queue, v, Tail(links))
         IN [queue |-> rest.queue,
             added |-> rest.added + (IF first.ret THEN 1 ELSE 0)]

\* The locals of crawl_npc_page as lines 106-111 set them.
InitLocals ==
    [branch |-> "try", html_file_size |-> 0, has_image |-> FALSE, image_url |-> None,
     image_filename |-> None, image_size_bytes |-> None, image_status |-> "not_found",
     error |-> ""]

\* The sizes of the files saved for u, and the image URL its page links to.
html_size_of(u) == u
image_size_of(u) == u
image_url_of(u) == u

\* The image locals after lines 117-126: the image is found and downloaded.
image_downloaded(l, u) ==
    [l EXCEPT
        !.has_image = TRUE,
        !.image_url = Some(image_url_of(u)),
        !.image_filename = Some(image_url_of(u)),
        !.image_size_bytes = Some(image_size_of(u)),
        !.image_status = "success"]

\* Lines 114-117 setting has_image for an image that is found, not downloaded.
image_found_flagged(l, u) ==
    [l EXCEPT !.has_image = TRUE, !.image_url = Some(image_url_of(u)),
              !.image_status = "found"]

\* The image locals after lines 114-117: the image is found, not downloaded.
image_found(l, u) ==
    [l EXCEPT !.image_url = Some(image_url_of(u)), !.image_status = "found"]

\* ImageData of add_to_image_queue.
ImageData(u) == [image_url |-> image_url_of(u), npc_name |-> u, page_url |-> u]

\* The arguments of the add_crawled_page call of lines 135-146.
success_args(u, l) ==
    [default_args EXCEPT
        !.status = "success",
        !.html_file_size = l.html_file_size,
        !.image_url = l.image_url,
        !.image_filename = l.image_filename,
        !.image_status = Some(l.image_status),
        !.image_size = IF l.image_size_bytes = None THEN 0 ELSE l.image_size_bytes[1],
        !.has_image = l.has_image]
    @@ [url |-> u, npc_name |-> u, html_filename |-> [stored |-> TRUE, file |-> u]]

\* The FetchError branch writing a record that still says success.
failed_args_success(u) ==
    [default_args EXCEPT !.status = "success", !.html_file_size = html_size_of(u)]
    @@ [url |-> u, npc_name |-> u, html_filename |-> [stored |-> FALSE, file |-> u]]

\* The arguments of the add_crawled_page call of lines 154-160.
failed_args(u) ==
    [default_args EXCEPT !.status = "failed", !.html_file_size = 0]
    @@ [url |-> u, npc_name |-> u, html_filename |-> [stored |-> FALSE, file |-> u]]

\* The counters with an image failure counted only for a page that was fetched.
counted_fetched_only(t, r) ==
    [crawled |-> t.crawled + 1,
     successful |-> t.successful + (IF r.html_success THEN 1 ELSE 0),
     failed |-> t.failed + (IF r.html_success THEN 0 ELSE 1),
     images_downloaded |-> t.images_downloaded + (IF r.image_success THEN 1 ELSE 0),
     image_failures |-> t.image_failures
                            + (IF r.html_success /\ ~r.image_success THEN 1 ELSE 0)]

\* crawl_all_npcs, lines 246-254: the counters after one crawl_npc_page result.
counted(t, r) ==
    [crawled |-> t.crawled + 1,
     successful |-> t.successful + (IF r.html_success THEN 1 ELSE 0),
     failed |-> t.failed + (IF r.html_success THEN 0 ELSE 1),
     images_downloaded |-> t.images_downloaded + (IF r.image_success THEN 1 ELSE 0),
     image_failures |-> t.image_failures + (IF r.image_success THEN 0 ELSE 1)]

CrawlResult(html, image, error) ==
    [html_success |-> html, image_success |-> image, error_message |-> error]

otherVars == <<queueVars, concVars, fetchVars, storeVars>>

\* run() is left, by return or by an exception: its frame and those of the
\* crawl methods it called are gone.
RunFrameDropped ==
    /\ max_pages' = None
    /\ max_npcs' = None
    /\ current_url' = None
    /\ pages_crawled' = 0
    /\ total_queued' = 0
    /\ npc_links' = <<>>
    /\ npc_url' = None
    /\ loc' = NoLocals
    /\ result' = None
    /\ totals' = NoTotals

\* The stores whose failure is not a failure of the wiki.
Stores == {"redis", "html_store", "image_store", "db"}

\* scrape_npcs: a new spider, its fetcher and its Redis connection open, and
\* run(max_pages, max_npcs); crawl_npc_list starts on the start URL.
StartRun(mp, mn) ==
    /\ pc = "idle"
    /\ runs < MaxRuns
    /\ runs' = runs + 1
    /\ max_pages' = mp
    /\ max_npcs' = mn
    /\ current_url' = Some(1)
    /\ pages_crawled' = 0
    /\ total_queued' = 0
    /\ npc_links' = <<>>
    /\ npc_url' = None
    /\ loc' = NoLocals
    /\ result' = None
    /\ totals' = NoTotals
    /\ final_stats' = None
    /\ resources' = {"fetcher", "redis"}
    /\ fault' = None
    /\ pc' = "list"
    /\ UNCHANGED <<frontierVars, table, html_files, image_files, completed, otherVars>>

\* scrape_npcs with Redis unreachable: the ping of URLManager.__init__ raises
\* inside WikiNPCSpider(), before the try of scrape_npcs: no spider, no run.
StartRunNoRedis ==
    /\ pc = "idle"
    /\ runs < MaxRuns
    /\ runs' = runs + 1
    /\ UNCHANGED <<frontierVars, pc, max_pages, max_npcs, current_url, pages_crawled,
                   total_queued, npc_links, npc_url, loc, result, totals, table, html_files,
                   image_files, final_stats, completed, resources, fault, otherVars>>

\* One iteration of crawl_npc_list whose page is fetched and parsed: its links
\* are enqueued, then the cap is tested, then the next-page link is followed.
\* The wiki's chain of list pages is MaxListFetches long at most where no cap
\* cuts the enumeration short.
ListPageOk(links, next) ==
    /\ pc = "list"
    /\ \/ next = None
       \/ cap_reached(max_pages, pages_crawled + 1)
       \/ pages_crawled + 1 < MaxListFetches
    /\ pages_crawled' = pages_crawled + 1
    /\ npc_links' = links
    /\ queue' = enqueue_all(queue, visited, links).queue
    /\ total_queued' = total_queued + enqueue_all(queue, visited, links).added
    /\ IF cap_reached(max_pages, pages_crawled + 1)
       THEN /\ current_url' = current_url
            /\ pc' = "list_done"
       ELSE /\ current_url' = next
            /\ pc' = IF next = None THEN "list_done" ELSE "list"
    /\ UNCHANGED <<visited, failed, image_queue, runs, max_pages, max_npcs, npc_url, loc,
                   result, totals, table, html_files, image_files, final_stats, completed,
                   resources, fault, otherVars>>

\* The failing iteration taking back what the enumeration has queued.
ListPageErrorRollback ==
    /\ pc = "list"
    /\ pages_crawled' = pages_crawled + 1
    /\ queue' = {}
    /\ pc' = "list_done"
    /\ UNCHANGED <<visited, failed, image_queue, runs, max_pages, max_npcs, current_url,
                   total_queued, npc_links, npc_url, loc, result, totals, table, html_files,
                   image_files, final_stats, completed, resources, fault, otherVars>>

\* One iteration of crawl_npc_list whose fetch raises FetchError or whose parse
\* raises: the loop breaks and keeps what is queued.
ListPageError ==
    /\ pc = "list"
    /\ pages_crawled' = pages_crawled + 1
    /\ pc' = "list_done"
    /\ UNCHANGED <<frontierVars, runs, max_pages, max_npcs, current_url, total_queued,
                   npc_links, npc_url, loc, result, totals, table, html_files, image_files,
                   final_stats, completed, resources, fault, otherVars>>

\* One iteration of crawl_npc_list in which Redis fails under the add_to_queue
\* of link k + 1: the redis exception is taken by `except Exception` of lines
\* 208-210 and the loop breaks like on any other error.
ListPageRedisError(links, k) ==
    /\ pc = "list"
    /\ k < Len(links)
    /\ pages_crawled' = pages_crawled + 1
    /\ npc_links' = links
    /\ queue' = enqueue_all(queue, visited, SubSeq(links, 1, k)).queue
    /\ total_queued' = total_queued + enqueue_all(queue, visited, SubSeq(links, 1, k)).added
    /\ fault' = Some("redis")
    /\ pc' = "list_done"
    /\ UNCHANGED <<visited, failed, image_queue, runs, max_pages, max_npcs, current_url,
                   npc_url, loc, result, totals, table, html_files, image_files, final_stats,
                   completed, resources, otherVars>>

\* run() building its statistics right after crawl_npc_list, without the drain.
ListReturnSkipDrain ==
    /\ pc = "list_done"
    /\ current_url' = None
    /\ npc_links' = <<>>
    /\ pc' = "return"
    /\ UNCHANGED <<frontierVars, runs, max_pages, max_npcs, pages_crawled, total_queued,
                   npc_url, loc, result, totals, table, html_files, image_files, final_stats,
                   completed, resources, fault, otherVars>>

\* crawl_npc_list returns its CrawlNPCListResult; run() goes on to crawl_all_npcs.
ListReturn ==
    /\ pc = "list_done"
    /\ current_url' = None
    /\ npc_links' = <<>>
    /\ pc' = "drain"
    /\ UNCHANGED <<frontierVars, runs, max_pages, max_npcs, pages_crawled, total_queued,
                   npc_url, loc, result, totals, table, html_files, image_files, final_stats,
                   completed, resources, fault, otherVars>>

\* The head of the loop of crawl_all_npcs with get_next_url before the cap:
\* the URL dequeued when the cap is reached is dropped.
DequeuePopFirst ==
    /\ pc = "drain"
    /\ \E popped \in spop_choices(queue) :
          /\ queue' = spop_rest(queue, popped)
          /\ IF cap_reached(max_npcs, totals.crawled) \/ popped = None
             THEN /\ pc' = "return"
                  /\ UNCHANGED <<npc_url, loc>>
             ELSE /\ pc' = "page_fetch"
                  /\ npc_url' = popped
                  /\ loc' = InitLocals
    /\ fault' = None
    /\ UNCHANGED <<visited, failed, image_queue, runs, max_pages, max_npcs, current_url,
                   pages_crawled, total_queued, npc_links, result, totals, table,
                   html_files, image_files, final_stats, completed, resources, otherVars>>

\* The head of the loop of crawl_all_npcs: the cap, then get_next_url.
Dequeue ==
    /\ pc = "drain"
    /\ IF cap_reached(max_npcs, totals.crawled)
       THEN /\ pc' = "return"
            /\ UNCHANGED <<queue, npc_url, loc>>
       ELSE \E popped \in spop_choices(queue) :
               /\ queue' = spop_rest(queue, popped)
               /\ IF popped = None
                  THEN /\ pc' = "return"
                       /\ UNCHANGED <<npc_url, loc>>
                  ELSE /\ pc' = "page_fetch"
                       /\ npc_url' = popped
                       /\ loc' = InitLocals
    /\ fault' = None
    /\ UNCHANGED <<visited, failed, image_queue, runs, max_pages, max_npcs, current_url,
                   pages_crawled, total_queued, npc_links, result, totals, table,
                   html_files, image_files, final_stats, completed, resources, otherVars>>

\* get_next_url with Redis failing: crawl_all_npcs has no handler around it,
\* the exception leaves run().
DequeueRedisError ==
    /\ pc = "drain"
    /\ ~cap_reached(max_npcs, totals.crawled)
    /\ fault' = Some("redis")
    /\ pc' = "close"
    /\ RunFrameDropped
    /\ UNCHANGED <<frontierVars, runs, table, html_files, image_files, final_stats,
                   completed, resources, otherVars>>

\* crawl_npc_page, line 98: the fetch of the detail page.
PageFetch(fr) ==
    /\ pc = "page_fetch"
    /\ IF fr[1].kind = "return"
       THEN /\ pc' = "page_save"
            /\ loc' = loc
       ELSE IF fr[1].exc = "FetchError"
            THEN /\ pc' = "fe_upsert"
                 /\ loc' = [loc EXCEPT !.branch = "FetchError", !.error = fr[1].text]
            ELSE /\ pc' = "ex_mark"
                 /\ loc' = [loc EXCEPT !.branch = "Exception", !.error = "Exception"]
    /\ UNCHANGED <<frontierVars, runs, max_pages, max_npcs, current_url, pages_crawled,
                   total_queued, npc_links, npc_url, result, totals, table, html_files,
                   image_files, final_stats, completed, resources, fault, otherVars>>

\* Lines 101-104: html_store.save and the size of the file; the IOError of a
\* failed write is taken by `except Exception`.
PageSave(ok) ==
    /\ pc = "page_save"
    /\ IF ok
       THEN /\ html_files' = html_files \cup {npc_url[1]}
            /\ loc' = [loc EXCEPT !.html_file_size = html_size_of(npc_url[1])]
            /\ fault' = fault
            /\ pc' = "page_image"
       ELSE /\ html_files' = html_files
            /\ loc' = [loc EXCEPT !.branch = "Exception", !.error = "Exception"]
            /\ fault' = Some("html_store")
            /\ pc' = "ex_mark"
    /\ UNCHANGED <<frontierVars, runs, max_pages, max_npcs, current_url, pages_crawled,
                   total_queued, npc_links, npc_url, result, totals, table, image_files,
                   final_stats, completed, resources, otherVars>>

\* Lines 113-133: extract_image_url and, when an image is found, its download.
\* download_npc_image turns an httpx.HTTPError into success=False and lets
\* every other exception through: the IOError of image_store.save
\* ("store_failed") and what httpx raises outside HTTPError, such as
\* InvalidURL ("exception"). add_to_image_queue can fail with Redis.
ImageOutcomes ==
    {"no_image", "downloaded", "download_failed", "exception", "store_failed",
     "redis_failed"}

PageImage(outcome) ==
    /\ pc = "page_image"
    /\ CASE outcome = "no_image" ->
              /\ loc' = loc
              /\ pc' = "page_upsert"
              /\ UNCHANGED <<image_queue, image_files, fault>>
         [] outcome = "downloaded" ->
              /\ loc' = image_downloaded(loc, npc_url[1])
              /\ image_files' = image_files \cup {image_url_of(npc_url[1])}
              /\ pc' = "page_upsert"
              /\ UNCHANGED <<image_queue, fault>>
         [] outcome = "download_failed" ->
              /\ loc' = image_found(loc, npc_url[1])
              /\ image_queue' = sadd(image_queue, {ImageData(npc_url[1])}).set
              /\ pc' = "page_upsert"
              /\ UNCHANGED <<image_files, fault>>
         [] outcome \in {"exception", "store_failed", "redis_failed"} ->
              /\ loc' = [image_found(loc, npc_url[1]) EXCEPT
                            !.branch = "Exception", !.error = "Exception"]
              /\ fault' = CASE outcome = "exception" -> fault
                            [] outcome = "store_failed" -> Some("image_store")
                            [] outcome = "redis_failed" -> Some("redis")
              /\ pc' = "ex_mark"
              /\ UNCHANGED <<image_queue, image_files>>
    /\ UNCHANGED <<queue, visited, failed, runs, max_pages, max_npcs, current_url,
                   pages_crawled, total_queued, npc_links, npc_url, result, totals, table,
                   html_files, final_stats, completed, resources, otherVars>>

\* Lines 135-146: the upsert of the success record; a failed transaction is
\* rolled back, re-raised and taken by `except Exception`.
PageUpsert(ok) ==
    /\ pc = "page_upsert"
    /\ IF ok
       THEN /\ table' = add_crawled_page(table, 0, success_args(npc_url[1], loc))
            /\ loc' = loc
            /\ fault' = fault
            /\ pc' = "page_visited"
       ELSE /\ table' = table
            /\ loc' = [loc EXCEPT !.branch = "Exception", !.error = "Exception"]
            /\ fault' = Some("db")
            /\ pc' = "ex_mark"
    /\ UNCHANGED <<frontierVars, runs, max_pages, max_npcs, current_url, pages_crawled,
                   total_queued, npc_links, npc_url, result, totals, html_files,
                   image_files, final_stats, completed, resources, otherVars>>

\* mark_visited also deleting the URL's field of the failed hash.
PageMarkVisitedClearsFailed ==
    /\ pc = "page_visited"
    /\ visited' = mark_visited(visited, npc_url[1])
    /\ failed' = [failed EXCEPT ![npc_url[1]] = None]
    /\ completed' = completed \cup {npc_url[1]}
    /\ result' = Some(CrawlResult(TRUE, loc.has_image, None))
    /\ totals' = counted(totals, CrawlResult(TRUE, loc.has_image, None))
    /\ loc' = NoLocals
    /\ pc' = "drain"
    /\ UNCHANGED <<queue, image_queue, runs, max_pages, max_npcs, current_url,
                   pages_crawled, total_queued, npc_links, npc_url, table, html_files,
                   image_files, final_stats, resources, fault, otherVars>>

\* Lines 148-150: mark_visited and the return, the frame of crawl_npc_page
\* gone with it, and the counting of the result by crawl_all_npcs.
PageMarkVisited ==
    /\ pc = "page_visited"
    /\ visited' = mark_visited(visited, npc_url[1])
    /\ completed' = completed \cup {npc_url[1]}
    /\ result' = Some(CrawlResult(TRUE, loc.has_image, None))
    /\ totals' = counted(totals, CrawlResult(TRUE, loc.has_image, None))
    /\ loc' = NoLocals
    /\ pc' = "drain"
    /\ UNCHANGED <<queue, failed, image_queue, runs, max_pages, max_npcs, current_url,
                   pages_crawled, total_queued, npc_links, npc_url, table, html_files,
                   image_files, final_stats, resources, fault, otherVars>>

\* Line 148 with Redis failing: the exception of mark_visited is taken by
\* `except Exception` like any other.
PageMarkVisitedRedisError ==
    /\ pc = "page_visited"
    /\ loc' = [loc EXCEPT !.branch = "Exception", !.error = "Exception"]
    /\ fault' = Some("redis")
    /\ pc' = "ex_mark"
    /\ UNCHANGED <<frontierVars, runs, max_pages, max_npcs, current_url, pages_crawled,
                   total_queued, npc_links, npc_url, result, totals, table, html_files,
                   image_files, final_stats, completed, resources, otherVars>>

\* Lines 152-160: the failed record of the FetchError branch. An exception of
\* the upsert is raised inside the except clause: nothing catches it before
\* scrape_npcs, and the run ends.
FetchErrorUpsert(ok) ==
    /\ pc = "fe_upsert"
    /\ IF ok
       THEN /\ table' = add_crawled_page(table, 0, failed_args(npc_url[1]))
            /\ pc' = "fe_mark"
            /\ UNCHANGED <<max_pages, max_npcs, current_url, pages_crawled, total_queued,
                           npc_links, npc_url, loc, result, totals, fault>>
       ELSE /\ table' = table
            /\ fault' = Some("db")
            /\ pc' = "close"
            /\ RunFrameDropped
    /\ UNCHANGED <<frontierVars, runs, html_files, image_files, final_stats, completed,
                   resources, otherVars>>

\* The FetchError branch ending the drain loop with the page it failed on.
FetchErrorMarkStop ==
    /\ pc = "fe_mark"
    /\ failed' = mark_failed(failed, npc_url[1], loc.error)
    /\ result' = Some(CrawlResult(FALSE, FALSE, Some(loc.error)))
    /\ totals' = counted(totals, CrawlResult(FALSE, FALSE, Some(loc.error)))
    /\ loc' = NoLocals
    /\ pc' = "return"
    /\ UNCHANGED <<queue, visited, image_queue, runs, max_pages, max_npcs, current_url,
                   pages_crawled, total_queued, npc_links, npc_url, table, html_files,
                   image_files, final_stats, completed, resources, fault, otherVars>>

\* Lines 161-162, and the counting of the result by crawl_all_npcs.
FetchErrorMark ==
    /\ pc = "fe_mark"
    /\ failed' = mark_failed(failed, npc_url[1], loc.error)
    /\ result' = Some(CrawlResult(FALSE, FALSE, Some(loc.error)))
    /\ totals' = counted(totals, CrawlResult(FALSE, FALSE, Some(loc.error)))
    /\ loc' = NoLocals
    /\ pc' = "drain"
    /\ UNCHANGED <<queue, visited, image_queue, runs, max_pages, max_npcs, current_url,
                   pages_crawled, total_queued, npc_links, npc_url, table, html_files,
                   image_files, final_stats, completed, resources, fault, otherVars>>

\* Lines 164-167, and the counting of the result by crawl_all_npcs.
ExceptionMark ==
    /\ pc = "ex_mark"
    /\ failed' = mark_failed(failed, npc_url[1], loc.error)
    /\ result' = Some(CrawlResult(FALSE, FALSE, Some(loc.error)))
    /\ totals' = counted(totals, CrawlResult(FALSE, FALSE, Some(loc.error)))
    /\ loc' = NoLocals
    /\ pc' = "drain"
    /\ UNCHANGED <<queue, visited, image_queue, runs, max_pages, max_npcs, current_url,
                   pages_crawled, total_queued, npc_links, npc_url, table, html_files,
                   image_files, final_stats, completed, resources, fault, otherVars>>

\* mark_failed of line 161 or 166 with Redis failing: raised inside an except
\* clause, the exception leaves crawl_npc_page and run().
MarkFailedRedisError ==
    /\ pc \in {"fe_mark", "ex_mark"}
    /\ fault' = Some("redis")
    /\ pc' = "close"
    /\ RunFrameDropped
    /\ UNCHANGED <<frontierVars, runs, table, html_files, image_files, final_stats,
                   completed, resources, otherVars>>

\* crawl_all_npcs returns; run builds the CrawlStats and returns them.
RunReturn ==
    /\ pc = "return"
    /\ final_stats' = Some(totals @@ [list_pages_crawled |-> pages_crawled])
    /\ pc' = "close"
    /\ RunFrameDropped
    /\ UNCHANGED <<frontierVars, runs, table, html_files, image_files, completed,
                   resources, fault, otherVars>>

\* Without the finally clause: an interrupted scrape ends as it is.
InterruptNoFinally ==
    /\ pc \notin {"idle", "close"}
    /\ pc' = "idle"
    /\ fault' = None
    /\ RunFrameDropped
    /\ UNCHANGED <<frontierVars, runs, table, html_files, image_files, final_stats,
                   completed, resources, otherVars>>

\* A KeyboardInterrupt while run() is under way: what is in flight is
\* abandoned, and scrape_npcs goes to its finally clause.
Interrupt ==
    /\ pc \notin {"idle", "close"}
    /\ pc' = "close"
    /\ RunFrameDropped
    /\ UNCHANGED <<frontierVars, runs, table, html_files, image_files, final_stats,
                   completed, resources, fault, otherVars>>

\* The finally clause of scrape_npcs: spider.close() closes the fetcher's
\* client and the Redis connection; the process ends and only the Redis
\* store, the table and the files outlive it.
Close ==
    /\ pc = "close"
    /\ pc' = "idle"
    /\ final_stats' = None
    /\ resources' = {}
    /\ fault' = None
    /\ UNCHANGED <<frontierVars, runs, max_pages, max_npcs, current_url, pages_crawled,
                   total_queued, npc_links, npc_url, loc, result, totals, table, html_files,
                   image_files, completed, otherVars>>

Init == FrontierEmpty /\ QueueIdle /\ ConcIdle /\ FetchIdle /\ CrawlIdle /\ StoreIdle

Next ==
    \/ \E mp \in Caps, mn \in Caps : StartRun(mp, mn)
    \/ StartRunNoRedis
    \/ \E links \in SeqsUpTo(URLs, MaxListLen), next \in {None} \cup {Some(p) : p \in ListPages} :
          ListPageOk(links, next)
    \/ ListPageError
    \/ \E links \in SeqsUpTo(URLs, MaxListLen), k \in 0..MaxListLen : ListPageRedisError(links, k)
    \/ ListReturn
    \/ Dequeue
    \/ DequeueRedisError
    \/ \E fr \in fetch_page_results : PageFetch(fr)
    \/ \E ok \in BOOLEAN : PageSave(ok)
    \/ \E outcome \in ImageOutcomes : PageImage(outcome)
    \/ \E ok \in BOOLEAN : PageUpsert(ok)
    \/ PageMarkVisited
    \/ PageMarkVisitedRedisError
    \/ \E ok \in BOOLEAN : FetchErrorUpsert(ok)
    \/ FetchErrorMark
    \/ ExceptionMark
    \/ MarkFailedRedisError
    \/ RunReturn
    \/ Interrupt
    \/ Close

Spec == Init /\ [][Next]_vars

(***************************************************************************)
(* Properties of the crawl.                                                *)
(***************************************************************************)
InFailed(u) == failed[u] # None

\* The sets of the frontier that hold u.
SetsHolding(u) ==
    {k \in {"pending", "visited", "failed"} :
        \/ k = "pending" /\ u \in queue
        \/ k = "visited" /\ u \in visited
        \/ k = "failed" /\ InFailed(u)}

\* C3, as stated: in every state the crawl reaches over repeated runs, no URL
\* is in two of pending, visited and failed at the same time.
C3_ExactlyOneSet == \A u \in URLs : Cardinality(SetsHolding(u)) <= 1

\* C3, amended: in every state the single-worker crawl reaches over repeated
\* runs no URL is in both pending and visited, and the URL in the page
\* pipeline is in neither; failed is not exclusive of the other two.
C3_PendingVisitedDisjoint ==
    /\ queue \cap visited = {}
    /\ pc \in {"page_fetch", "page_save", "page_image", "page_upsert", "page_visited",
               "fe_upsert", "fe_mark", "ex_mark"}
          => npc_url[1] \notin queue \cup visited

\* C3's case: a URL that failed in one run, was rediscovered and queued again
\* with its failed entry kept, and was visited at last, the failed entry still
\* there, while the other URL waits in pending.
C3_Witness ==
    /\ runs = 2
    /\ \E u \in URLs : SetsHolding(u) = {"visited", "failed"}
    /\ \E u \in URLs : "pending" \in SetsHolding(u)

\* C5: a URL whose page pipeline reached mark_visited, in this run or an
\* earlier one, is never handed to crawl_npc_page again: it is not the URL the
\* pipeline starts on, and it is not waiting in pending either.
C5_NoReprocessing ==
    /\ pc = "page_fetch" => npc_url[1] \notin completed
    /\ queue \cap completed = {}

\* C5's case: the second run's enumeration has just rediscovered a completed
\* URL and tried to enqueue it, and nothing was queued.
C5_Witness ==
    /\ runs = 2
    /\ pc = "list"
    /\ \E u \in Range(npc_links) : u \in completed
    /\ Range(npc_links) \subseteq completed
    /\ total_queued = 0
    /\ queue = {}

\* C10: the FetchError branch. The fetch of the dequeued URL raising
\* FetchError leads to the upsert with the FetchError's text kept; the upsert
\* leaves a record of the URL with status failed and size 0 and touches no
\* other record and nothing of the frontier; then mark_failed records the
\* text under the URL, the result has html_success False and is counted as one
\* more failure, and pending and visited are as they were, without the URL.
C10_FetchErrorState ==
    /\ pc \in {"fe_upsert", "fe_mark"} =>
          /\ loc.branch = "FetchError"
          /\ loc.error \in FetchCauses
          /\ npc_url[1] \notin queue \cup visited
    /\ pc = "fe_mark" =>
          /\ table[npc_url[1]] # None
          /\ table[npc_url[1]][1].status = "failed"
          /\ table[npc_url[1]][1].html_file_size = 0

C10_FetchErrorStep ==
    /\ pc = "page_fetch" /\ pc' \notin {"page_fetch", "page_save", "close"} =>
          /\ pc' = "fe_upsert"
          /\ frontierVars' = frontierVars
          /\ table' = table
    /\ pc = "fe_upsert" /\ pc' = "fe_mark" =>
          /\ \A u \in URLs \ {npc_url[1]} : table'[u] = table[u]
          /\ frontierVars' = frontierVars
          /\ totals' = totals
    /\ pc = "fe_mark" /\ pc' \notin {"fe_mark", "close"} =>
          /\ pc' = "drain"
          /\ failed' = [failed EXCEPT ![npc_url[1]] = Some(loc.error)]
          /\ result'[1].html_success = FALSE
          /\ result'[1].error_message = Some(loc.error)
          /\ totals'.crawled = totals.crawled + 1
          /\ totals'.failed = totals.failed + 1
          /\ totals'.successful = totals.successful
          /\ queue' = queue
          /\ visited' = visited
          /\ table' = table

C10_FetchErrorBranch == []C10_FetchErrorState /\ [][C10_FetchErrorStep]_vars

\* C10's case: the branch has run to its end for a URL whose fetch timed out
\* three times, over a success record an earlier run left.
C10_Witness ==
    /\ pc = "drain"
    /\ result # None
    /\ result[1] = CrawlResult(FALSE, FALSE, Some("Request timed out"))
    /\ failed[npc_url[1]] = Some("Request timed out")
    /\ table[npc_url[1]] # None
    /\ table[npc_url[1]][1].status = "failed"
    /\ table[npc_url[1]][1].html_file_size = 0
    /\ npc_url[1] \in html_files
    /\ totals.failed = 1

\* The record of u, where there is one.
Row(u) == table[u][1]

\* C11, as stated: once the image URL of the fetched page is found and its
\* download has failed, for whatever reason, the pipeline goes on to the
\* upsert with the retry entry queued; the upsert then leaves a record with
\* status success, has_image false and image_status found, and mark_visited
\* follows; mark_failed is not reached.
C11_SoftFailureStep ==
    /\ (/\ pc = "page_image"
        /\ pc' \notin {"page_image", "close"}
        /\ loc'.image_status = "found"
        /\ fault' # Some("redis"))
          => /\ pc' = "page_upsert"
             /\ ImageData(npc_url[1]) \in image_queue'
             /\ ~loc'.has_image
    /\ (pc = "page_upsert" /\ loc.image_status = "found" /\ pc' = "page_visited")
          => /\ table'[npc_url[1]] # None
             /\ table'[npc_url[1]][1].status = "success"
             /\ ~table'[npc_url[1]][1].has_image
             /\ table'[npc_url[1]][1].image_status = Some("found")
             /\ failed' = failed

C11_ImageSoftFailure == [][C11_SoftFailureStep]_vars

\* C12: every record with has_image true has image_status success and an
\* image filename, re-crawled records included.
C12_HasImageImpliesSuccess ==
    \A u \in URLs :
        (table[u] # None /\ Row(u).has_image)
            => /\ Row(u).image_status = Some("success")
               /\ Row(u).image_filename # None

\* C12's case: a record inserted as failed by one run and updated by the
\* crawl of a later run that downloaded the image.
C12_Witness ==
    \E u \in URLs :
        /\ failed[u] # None
        /\ failed[u][1] \in FetchCauses
        /\ u \in visited
        /\ table[u] # None
        /\ Row(u).has_image
        /\ Row(u).status = "success"

(***************************************************************************)
(* UpsertSpec: callers of SQLiteCRUDManager.add_crawled_page, one call at  *)
(* a time, each inside the session of get_session (sql_crud.py:23-35):     *)
(* the call works on the session's copy of the row, the table changes at   *)
(* the commit, and an exception at any point rolls the session back.       *)
(***************************************************************************)
\* The calls the crawl makes for u: the failed record, and the success record
\* without an image, with a downloaded one, and with one found only.
UpsertArgs ==
    UNION {{failed_args(u),
            success_args(u, [InitLocals EXCEPT !.html_file_size = html_size_of(u)]),
            success_args(u, image_downloaded(InitLocals, u)),
            success_args(u, image_found(InitLocals, u))} : u \in URLs}

\* The assignments of the update path in the order of lines 54-68.
UpdateOrder ==
    <<"npc_name", "content", "status", "html_file_size", "has_image", "image_url",
      "image_filename", "image_status", "image_size", "updated_at">>

\* The session's copy of the row after the first k assignments.
partial_row(row, now, a, k) ==
    [f \in DOMAIN row |->
        IF \E i \in 1..k : UpdateOrder[i] = f THEN updated_row(row, now, a)[f] ELSE row[f]]

\* What the session holds after k steps of the call: on the update path the
\* row partly assigned, on the insert path nothing until session.add.
pending(t, now, a, k) ==
    IF row_found(t, a.url)
    THEN [t EXCEPT ![a.url] = Some(partial_row(t[a.url][1], now, a, k))]
    ELSE IF k = Len(UpdateOrder)
         THEN [t EXCEPT ![a.url] = Some(inserted_row(now, a))]
         ELSE t

\* get_session with an except clause that commits what the session holds.
rollback_keeping(t, held) == held

\* get_session, lines 30-33: session.rollback() discards what the session holds.
rollback(t, held) == t

\* get_session, line 29: session.commit() makes it the table.
commit(t, held) == held

\* The call is made and the session opened; time has moved on since the
\* last call. `repeat` notes a call with the url and fields of the call
\* committed last for that url.
UBegin(a) ==
    /\ upc = "idle"
    /\ clock < MaxClock
    /\ clock' = clock + 1
    /\ ucall' = Some([args |-> a, now |-> clock + 1, before |-> table, k |-> 0,
                      repeat |-> last_args[a.url] = Some(a)])
    /\ uresult' = None
    /\ upc' = "open"
    /\ UNCHANGED <<table, row_count, last_args>>
    /\ UNCHANGED <<frontierVars, queueVars, concVars, fetchVars, pc, runs, max_pages, max_npcs,
                   current_url, pages_crawled, total_queued, npc_links, npc_url, loc, result,
                   totals, html_files, image_files, final_stats, completed, resources, fault>>

\* One more statement of the body: an assignment of the update path, or the
\* construction and session.add of the insert path.
UAssign ==
    /\ upc = "open"
    /\ ucall[1].k < Len(UpdateOrder)
    /\ ucall' = Some([ucall[1] EXCEPT !.k = IF row_found(table, ucall[1].args.url)
                                            THEN @ + 1 ELSE Len(UpdateOrder)])
    /\ UNCHANGED <<table, clock, upc, uresult, row_count, last_args>>
    /\ UNCHANGED <<frontierVars, queueVars, concVars, fetchVars, pc, runs, max_pages, max_npcs,
                   current_url, pages_crawled, total_queued, npc_links, npc_url, loc, result,
                   totals, html_files, image_files, final_stats, completed, resources, fault>>

\* The body is done and session.commit() succeeds.
UCommit ==
    /\ upc = "open"
    /\ ucall[1].k = Len(UpdateOrder)
    /\ table' = commit(table, pending(table, ucall[1].now, ucall[1].args, ucall[1].k))
    /\ row_count' = [row_count EXCEPT ![ucall[1].args.url] =
                        IF row_found(table, ucall[1].args.url) THEN @ ELSE @ + 1]
    /\ last_args' = [last_args EXCEPT ![ucall[1].args.url] = Some(ucall[1].args)]
    /\ uresult' = "committed"
    /\ upc' = "idle"
    /\ UNCHANGED <<clock, ucall>>
    /\ UNCHANGED <<frontierVars, queueVars, concVars, fetchVars, pc, runs, max_pages, max_npcs,
                   current_url, pages_crawled, total_queued, npc_links, npc_url, loc, result,
                   totals, html_files, image_files, final_stats, completed, resources, fault>>

\* An exception in the body or in the commit: rollback, and the exception is
\* raised again to the caller.
URaise ==
    /\ upc = "open"
    /\ table' = rollback(table, pending(table, ucall[1].now, ucall[1].args, ucall[1].k))
    /\ uresult' = "raised"
    /\ upc' = "idle"
    /\ UNCHANGED <<clock, ucall, row_count, last_args>>
    /\ UNCHANGED <<frontierVars, queueVars, concVars, fetchVars, pc, runs, max_pages, max_npcs,
                   current_url, pages_crawled, total_queued, npc_links, npc_url, loc, result,
                   totals, html_files, image_files, final_stats, completed, resources, fault>>

UpsertInit == FrontierEmpty /\ QueueIdle /\ ConcIdle /\ FetchIdle /\ CrawlIdle /\ StoreIdle

UpsertNext ==
    \/ \E a \in UpsertArgs : UBegin(a)
    \/ UAssign
    \/ UCommit
    \/ URaise

UpsertSpec == UpsertInit /\ [][UpsertNext]_vars

(***************************************************************************)
(* Properties of the upsert.                                               *)
(***************************************************************************)
\* The step that commits the call under way, for url u.
CommitStep(u) == upc = "open" /\ uresult' = "committed" /\ ucall[1].args.url = u

NonTimestamp(row) == [f \in DOMAIN row \ {"crawled_at", "updated_at"} |-> row[f]]

ImageFields(row) ==
    [f \in {"has_image", "image_url", "image_filename", "image_status", "image_size"} |-> row[f]]

\* Neither image_url, image_filename nor image_status, and has_image and
\* image_size as the defaults have them.
NoImageInfo(a) ==
    /\ a.image_url = None
    /\ a.image_filename = None
    /\ a.image_status = None
    /\ a.has_image = default_args.has_image
    /\ a.image_size = default_args.image_size

\* C13: after one or more committed calls for a url there is exactly one row
\* of that url; a commit on a row that exists leaves crawled_at as the
\* inserting call set it; and the commit of a call with the same url and
\* fields as the last one leaves every other field but updated_at equal and
\* makes updated_at strictly greater.
C13_OneRow ==
    \A u \in URLs : last_args[u] # None => row_count[u] = 1 /\ table[u] # None

C13_RepeatStep ==
    \A u \in URLs :
        /\ (CommitStep(u) /\ table[u] # None)
              => /\ table'[u] # None
                 /\ table'[u][1].crawled_at = table[u][1].crawled_at
        /\ (CommitStep(u) /\ last_args[u] = Some(ucall[1].args))
              => /\ NonTimestamp(table'[u][1]) = NonTimestamp(table[u][1])
                 /\ table'[u][1].updated_at > table[u][1].updated_at
                 /\ table'[u][1].crawled_at = table[u][1].crawled_at

C13_UpsertIdempotent == []C13_OneRow /\ [][C13_RepeatStep]_vars

\* C13's case: the second of two calls with the same url and fields has
\* committed, after the first inserted the row.
C13_Witness ==
    /\ uresult = "committed"
    /\ ucall[1].repeat
    /\ ucall[1].now = 2
    /\ Row(ucall[1].args.url).crawled_at = 1
    /\ Row(ucall[1].args.url).updated_at = 2
    /\ row_count[ucall[1].args.url] = 1

\* C14, as stated: the commit of a call without image information on a row
\* that exists leaves has_image, image_url, image_filename, image_status and
\* image_size of the row as they were.
C14_ImageFieldsKept ==
    [][\A u \in URLs :
          (CommitStep(u) /\ table[u] # None /\ NoImageInfo(ucall[1].args))
              => ImageFields(table'[u][1]) = ImageFields(table[u][1])]_vars

\* C15: while a call is under way the table is as it was before the call; a
\* call that raised has left it exactly so; a call that committed has left
\* it with the whole upsert applied.
C15_Transactional ==
    /\ upc = "open" => table = ucall[1].before
    /\ uresult = "raised" => table = ucall[1].before
    /\ uresult = "committed" =>
          table = add_crawled_page(ucall[1].before, ucall[1].now, ucall[1].args)

\* C15's case: a call raised after some but not all assignments of the
\* update path, with the session's row already different from the table's.
C15_Witness ==
    /\ uresult = "raised"
    /\ ucall[1].k \in 1..(Len(UpdateOrder) - 1)
    /\ row_found(table, ucall[1].args.url)
    /\ pending(table, ucall[1].now, ucall[1].args, ucall[1].k) # table

(***************************************************************************)
(* CleanupSpec: one scrape from start to end, every step of the run        *)
(* completing in the end: the single task of asyncio.run is always         *)
(* scheduled, its awaits are bounded by the client's timeout and the       *)
(* rate-limit sleep, and the store calls return or raise.                  *)
(***************************************************************************)
\* The one scrape of this specification.
StartScrape(mp, mn) == runs = 0 /\ StartRun(mp, mn)

\* The steps of run() itself, interrupt and cleanup apart.
RunStep ==
    \/ \E links \in SeqsUpTo(URLs, MaxListLen), next \in {None} \cup {Some(p) : p \in ListPages} :
          ListPageOk(links, next)
    \/ ListPageError
    \/ \E links \in SeqsUpTo(URLs, MaxListLen), k \in 0..MaxListLen : ListPageRedisError(links, k)
    \/ ListReturn
    \/ Dequeue
    \/ DequeueRedisError
    \/ \E fr \in fetch_page_results : PageFetch(fr)
    \/ \E ok \in BOOLEAN : PageSave(ok)
    \/ \E outcome \in ImageOutcomes : PageImage(outcome)
    \/ \E ok \in BOOLEAN : PageUpsert(ok)
    \/ PageMarkVisited
    \/ PageMarkVisitedRedisError
    \/ \E ok \in BOOLEAN : FetchErrorUpsert(ok)
    \/ FetchErrorMark
    \/ ExceptionMark
    \/ MarkFailedRedisError
    \/ RunReturn

CleanupNext ==
    \/ \E mp \in Caps, mn \in Caps : StartScrape(mp, mn)
    \/ \E links \in SeqsUpTo(URLs, MaxListLen), next \in {None} \cup {Some(p) : p \in ListPages} :
          ListPageOk(links, next)
    \/ ListPageError
    \/ \E links \in SeqsUpTo(URLs, MaxListLen), k \in 0..MaxListLen : ListPageRedisError(links, k)
    \/ ListReturn
    \/ Dequeue
    \/ DequeueRedisError
    \/ \E fr \in fetch_page_results : PageFetch(fr)
    \/ \E ok \in BOOLEAN : PageSave(ok)
    \/ \E outcome \in ImageOutcomes : PageImage(outcome)
    \/ \E ok \in BOOLEAN : PageUpsert(ok)
    \/ PageMarkVisited
    \/ PageMarkVisitedRedisError
    \/ \E ok \in BOOLEAN : FetchErrorUpsert(ok)
    \/ FetchErrorMark
    \/ ExceptionMark
    \/ MarkFailedRedisError
    \/ RunReturn
    \/ Interrupt
    \/ Close

CleanupSpec == Init /\ [][CleanupNext]_vars /\ WF_vars(RunStep) /\ WF_vars(Close)

(***************************************************************************)
(* Properties of the two phases and of the ways a scrape ends.             *)
(***************************************************************************)
PipelinePcs ==
    {"page_fetch", "page_save", "page_image", "page_upsert", "page_visited",
     "fe_upsert", "fe_mark", "ex_mark"}

\* C16: with a positive cap N the enumeration counts N list pages at most
\* and is not in its loop any more once it has counted N, whatever the pages
\* link to; the loop goes round again only with a next-page link in hand;
\* and without a cap it is left only with no next-page link or by an error.
C16_ListCapState ==
    truthy(max_pages) =>
        /\ pages_crawled <= max_pages[1]
        /\ pc = "list" => pages_crawled < max_pages[1]

C16_ListStep ==
    /\ (pc = "list" /\ pc' = "list") => current_url' # None /\ fault' = None
    /\ (pc = "list" /\ pc' = "list_done" /\ ~truthy(max_pages))
          => \/ current_url' = None
             \/ fault' = Some("redis")
             \/ /\ queue' = queue
                /\ total_queued' = total_queued
                /\ npc_links' = npc_links

C16_ListEnumerationBounded == []C16_ListCapState /\ [][C16_ListStep]_vars

\* C16's case: the cap of one page has ended the enumeration on a page that
\* had links to queue, the loop variable still on the page just fetched.
C16_Witness ==
    /\ pc = "list_done"
    /\ max_pages = Some(1)
    /\ pages_crawled = 1
    /\ current_url = Some(1)
    /\ fault = None
    /\ total_queued = NumUrls

\* C17: with a positive cap M the pipeline is run on M URLs at most; the
\* drain loop ends when pending is empty; and a URL leaves pending in the
\* drain loop only as the URL crawl_npc_page is then called with.
C17_DrainCapState ==
    truthy(max_npcs) =>
        /\ totals.crawled <= max_npcs[1]
        /\ pc \in PipelinePcs => totals.crawled < max_npcs[1]

C17_DrainStep ==
    /\ (pc = "drain" /\ queue' # queue)
          => /\ pc' = "page_fetch"
             /\ npc_url' # None
             /\ npc_url'[1] \in queue
             /\ queue' = queue \ {npc_url'[1]}
    /\ (pc = "drain" /\ queue = {} /\ pc' \notin {"drain", "close"}) => pc' = "return"

C17_DrainBounded == []C17_DrainCapState /\ [][C17_DrainStep]_vars

\* C17's case: the cap of one URL has ended the drain loop after one page,
\* the other URL still pending.
C17_Witness ==
    /\ pc = "return"
    /\ max_npcs = Some(1)
    /\ totals.crawled = 1
    /\ queue # {}

\* C18, as stated: a failed write of the HTML store, the image store or the
\* record store during the page pipeline ends the run.
C18_StorageFailurePropagates ==
    (fault # None /\ fault[1] \in {"html_store", "image_store", "db"}) => pc = "close"

\* C19, as stated: a failure of Redis during list enumeration or draining
\* leaves run(), the scrape going to its end with no further phase or URL.
C19_RedisFailurePropagates == fault = Some("redis") => pc = "close"

\* C20: whenever the spider's connections are open, the scrape comes to the
\* point where spider.close() has run and they are closed.
C20_CleanupReached == (resources # {}) ~> (pc = "idle" /\ resources = {})

\* C20's case: a scrape that got as far as marking a URL visited has ended
\* with a URL it never dequeued, and nothing is open.
C20_Witness ==
    /\ pc = "idle"
    /\ runs = 1
    /\ resources = {}
    /\ visited # {}
    /\ queue # {}


(***************************************************************************)
(* URLManager: the image retry queue, the statistics and clear_all         *)
(* (url_manager.py:134-196).                                               *)
(***************************************************************************)
\* add_to_image_queue: SADD of the serialised ImageData.
add_to_image_queue(iq, data) ==
    [image_queue |-> sadd(iq, {data}).set, ret |-> sadd(iq, {data}).added > 0]

\* get_stats: SCARD of pending and visited, HLEN of failed.
get_stats(q, v, f) ==
    [total_urls_queued |-> Cardinality(q), total_urls_visited |-> Cardinality(v),
     total_urls_failed |-> hlen(f)]

(***************************************************************************)
(* ManagerSpec: the one caller of QueueSpec, who may also use the image    *)
(* retry queue.                                                            *)
(***************************************************************************)
QAddToImageQueue(u) ==
    /\ image_queue' = add_to_image_queue(image_queue, ImageData(u)).image_queue
    /\ last' = [op |-> "add_to_image_queue", arg |-> u,
                ret |-> add_to_image_queue(image_queue, ImageData(u)).ret]
    /\ UNCHANGED <<queue, visited, failed, concVars, fetchVars, crawlVars, storeVars>>

QGetNextImageData ==
    \E popped \in spop_choices(image_queue) :
        /\ image_queue' = spop_rest(image_queue, popped)
        /\ last' = [op |-> "get_next_image_data", arg |-> None, ret |-> popped]
        /\ UNCHANGED <<queue, visited, failed, concVars, fetchVars, crawlVars, storeVars>>

ManagerNext ==
    \/ \E url \in URLs : QAddToQueue(url)
    \/ \E urls \in SeqsUpTo(URLs, MaxListLen) : QAddMultipleToQueue(urls)
    \/ QGetNextUrl
    \/ \E url \in URLs : QMarkVisited(url)
    \/ \E url \in URLs, error \in {"HTTP error", "Exception"} : QMarkFailed(url, error)
    \/ \E u \in URLs : QAddToImageQueue(u)
    \/ QGetNextImageData

ManagerSpec == QueueInit /\ [][ManagerNext]_vars

\* What a step of the caller can change, in a form any two states can be compared in.
managerVars == <<frontierVars, ToString(last)>>

\* Visited, the failed hash and the image retry queue are left as they were.
OthersKept == visited' = visited /\ failed' = failed /\ image_queue' = image_queue

(***************************************************************************)
(* C21: add_to_queue(u) for a visited u returns False and changes none of  *)
(* the four sets; for any other u, u is pending afterwards and the call    *)
(* returns True exactly when u was not pending before (so a repeated add   *)
(* of a pending u returns False and leaves pending as it was); visited and *)
(* failed are never changed by it.                                         *)
(***************************************************************************)
C21_AddToQueue ==
    [][last'.op = "add_to_queue" =>
          /\ OthersKept
          /\ IF last'.arg \in visited
             THEN last'.ret = FALSE /\ queue' = queue
             ELSE /\ last'.arg \in queue'
                  /\ queue' = queue \cup {last'.arg}
                  /\ last'.ret = (last'.arg \notin queue)]_managerVars

\* C21's case: an add of an unvisited URL returned True while other URLs were
\* pending, visited, failed and awaiting an image retry.
C21_Witness ==
    /\ last.op = "add_to_queue"
    /\ last.ret = TRUE
    /\ last.arg \in queue /\ last.arg \notin visited
    /\ queue # {last.arg}
    /\ visited # {} /\ hlen(failed) > 0 /\ image_queue # {}

(***************************************************************************)
(* C22: add_multiple_to_queue(urls) makes pending exactly the listed URLs  *)
(* that are not visited, besides what was pending; it returns the number   *)
(* of distinct listed URLs that were neither visited nor pending (a URL    *)
(* listed twice counts once, the empty list gives 0), and pending grows by *)
(* exactly that number.                                                    *)
(***************************************************************************)
C22_AddMultipleToQueue ==
    [][last'.op = "add_multiple_to_queue" =>
          /\ OthersKept
          /\ queue' = queue \cup {u \in Range(last'.arg) : u \notin visited}
          /\ last'.ret = Cardinality({u \in Range(last'.arg) :
                                          u \notin visited /\ u \notin queue})
          /\ Cardinality(queue') = Cardinality(queue) + last'.ret
          /\ (last'.arg = <<>> => last'.ret = 0)]_managerVars

\* C22's case: a list naming one URL twice added it and returned 1 while the
\* other URL was already pending.
C22_Witness ==
    /\ last.op = "add_multiple_to_queue"
    /\ Len(last.arg) = 2 /\ last.arg[1] = last.arg[2]
    /\ last.ret = 1
    /\ Cardinality(queue) = 2

(***************************************************************************)
(* C23: get_next_url() returns None exactly when pending is empty;         *)
(* otherwise it returns one URL that was pending and removes exactly that  *)
(* URL, so pending shrinks by one. Visited, failed and the image retry     *)
(* queue are left unchanged.                                               *)
(***************************************************************************)
C23_GetNextUrl ==
    [][last'.op = "get_next_url" =>
          /\ OthersKept
          /\ (last'.ret = None) = (queue = {})
          /\ last'.ret = None => queue' = queue
          /\ last'.ret # None =>
                 /\ last'.ret[1] \in queue
                 /\ queue' = queue \ {last'.ret[1]}
                 /\ Cardinality(queue') = Cardinality(queue) - 1]_managerVars

\* C23's case: a URL was returned while another stayed pending.
C23_Witness ==
    /\ last.op = "get_next_url"
    /\ last.ret # None
    /\ queue # {} /\ last.ret[1] \notin queue
    /\ image_queue # {}


(***************************************************************************)
(* clear_all (url_manager.py:191-196): one DEL of the four keys. Its only  *)
(* caller is the reset script (utils/reset_queue.py:9-13), a process of    *)
(* its own with its own connection.                                        *)
(***************************************************************************)
\* clear_all with the image retry key left out of the DEL.
clear_all_three_keys(q, v, f, iq) ==
    [queue |-> {}, visited |-> {}, failed |-> NoFailed, image_queue |-> iq]

clear_all(q, v, f, iq) ==
    [queue |-> {}, visited |-> {}, failed |-> NoFailed, image_queue |-> {}]

\* reset_url_queue: a URLManager of its own, and clear_all on it.
ResetQueue ==
    /\ queue' = clear_all(queue, visited, failed, image_queue).queue
    /\ visited' = clear_all(queue, visited, failed, image_queue).visited
    /\ failed' = clear_all(queue, visited, failed, image_queue).failed
    /\ image_queue' = clear_all(queue, visited, failed, image_queue).image_queue
    /\ last' = [op |-> "clear_all", arg |-> None, ret |-> None]
    /\ UNCHANGED <<concVars, fetchVars, crawlVars, storeVars>>

(***************************************************************************)
(* ResetSpec: the scrapes of Spec, and the reset script, which an operator *)
(* may run at any moment, also while a scrape is under way.                *)
(***************************************************************************)
ResetNext ==
    \/ \E mp \in Caps, mn \in Caps : StartScrape(mp, mn)
    \/ \E links \in SeqsUpTo(URLs, MaxListLen), next \in {None} \cup {Some(p) : p \in ListPages} :
          ListPageOk(links, next)
    \/ ListPageError
    \/ \E links \in SeqsUpTo(URLs, MaxListLen), k \in 0..MaxListLen : ListPageRedisError(links, k)
    \/ ListReturn
    \/ Dequeue
    \/ DequeueRedisError
    \/ \E fr \in fetch_page_results : PageFetch(fr)
    \/ \E ok \in BOOLEAN : PageSave(ok)
    \/ \E outcome \in ImageOutcomes : PageImage(outcome)
    \/ \E ok \in BOOLEAN : PageUpsert(ok)
    \/ PageMarkVisited
    \/ PageMarkVisitedRedisError
    \/ \E ok \in BOOLEAN : FetchErrorUpsert(ok)
    \/ FetchErrorMark
    \/ ExceptionMark
    \/ MarkFailedRedisError
    \/ RunReturn
    \/ Interrupt
    \/ Close
    \/ ResetQueue

ResetSpec == Init /\ [][ResetNext]_vars

\* What a step of ResetSpec can change, in a form any two states can be compared in.
resetVars == <<frontierVars, ToString(crawlVars), ToString(last)>>

\* A step of the scrape process: it moves the crawl on.
CrawlStep == ToString(crawlVars') # ToString(crawlVars)

(***************************************************************************)
(* C24: clear_all() leaves pending, visited, failed and the image retry    *)
(* queue all empty, whatever they held, so that get_stats() reads 0/0/0;   *)
(* and no step of the crawl (enumeration, draining, close) invokes         *)
(* clear_all or takes a URL out of visited or out of failed.               *)
(***************************************************************************)
C24_OnlyClearAllRemoves ==
    [][IF CrawlStep
       THEN /\ last' = last
            /\ visited \subseteq visited'
            /\ \A u \in URLs : failed[u] # None => failed'[u] # None
       ELSE /\ last'.op = "clear_all"
            /\ queue' = {} /\ visited' = {} /\ image_queue' = {}
            /\ \A u \in URLs : failed'[u] = None
            /\ get_stats(queue', visited', failed') =
                   [total_urls_queued |-> 0, total_urls_visited |-> 0,
                    total_urls_failed |-> 0]]_resetVars

\* C24's case: clear_all has emptied a store in which a URL was visited, while
\* the scrape that visited it goes on.
C24_Witness ==
    /\ last.op = "clear_all"
    /\ completed # {}
    /\ queue = {} /\ visited = {} /\ hlen(failed) = 0 /\ image_queue = {}
    /\ pc = "drain"


(***************************************************************************)
(* The two content stores (storage/html_store.py, storage/image_store.py), *)
(* each method as a function of the files in the store's directory. A file *)
(* is named after the page it belongs to and holds that page's content.    *)
(* Whether a write or a read succeeds is the file system's answer.         *)
(***************************************************************************)
\* HTMLStorageManager.save: write_text, and IOError for whatever it raises.
html_save(files, filename, written) ==
    IF written
    THEN [files |-> files \cup {filename}, ret |-> Returned(filename)[1]]
    ELSE [files |-> files, ret |-> Raised("IOError", "Failed to save HTML")[1]]

\* HTMLStorageManager.load: None for a missing file; read_text otherwise, and
\* None again for whatever read_text raises.
html_load(files, filename, readable) ==
    IF filename \notin files
    THEN Returned(None)[1]
    ELSE IF readable THEN Returned(Some(filename))[1] ELSE Returned(None)[1]

\* ImageStorageManager.save: write_bytes, and IOError for whatever it raises.
image_save(files, filename, written) ==
    IF written
    THEN [files |-> files \cup {filename}, ret |-> Returned(filename)[1]]
    ELSE [files |-> files, ret |-> Raised("IOError", "Failed to save image")[1]]

\* ImageStorageManager.load: as HTMLStorageManager.load, with read_bytes.
image_load(files, filename, readable) ==
    IF filename \notin files
    THEN Returned(None)[1]
    ELSE IF readable THEN Returned(Some(filename))[1] ELSE Returned(None)[1]

(***************************************************************************)
(* StoreSpec: one caller, one store operation per step. `last` also keeps  *)
(* the file system's answer to the operation.                              *)
(***************************************************************************)
crawlRest == <<pc, runs, max_pages, max_npcs, current_url, pages_crawled, total_queued,
               npc_links, npc_url, loc, result, totals, table, final_stats, completed,
               resources, fault>>

SHtmlSave(u, written) ==
    /\ html_files' = html_save(html_files, u, written).files
    /\ last' = [op |-> "html_save", arg |-> u, io_ok |-> written,
                ret |-> html_save(html_files, u, written).ret]
    /\ UNCHANGED <<frontierVars, concVars, fetchVars, crawlRest, image_files, storeVars>>

SHtmlLoad(u, readable) ==
    /\ last' = [op |-> "html_load", arg |-> u, io_ok |-> readable,
                ret |-> html_load(html_files, u, readable)]
    /\ UNCHANGED <<frontierVars, concVars, fetchVars, crawlVars, storeVars>>

SImageSave(u, written) ==
    /\ image_files' = image_save(image_files, u, written).files
    /\ last' = [op |-> "image_save", arg |-> u, io_ok |-> written,
                ret |-> image_save(image_files, u, written).ret]
    /\ UNCHANGED <<frontierVars, concVars, fetchVars, crawlRest, html_files, storeVars>>

SImageLoad(u, readable) ==
    /\ last' = [op |-> "image_load", arg |-> u, io_ok |-> readable,
                ret |-> image_load(image_files, u, readable)]
    /\ UNCHANGED <<frontierVars, concVars, fetchVars, crawlVars, storeVars>>

StoreNext ==
    \/ \E u \in URLs, written \in BOOLEAN : SHtmlSave(u, written)
    \/ \E u \in URLs, readable \in BOOLEAN : SHtmlLoad(u, readable)
    \/ \E u \in URLs, written \in BOOLEAN : SImageSave(u, written)
    \/ \E u \in URLs, readable \in BOOLEAN : SImageLoad(u, readable)

StoreSpec == Init /\ [][StoreNext]_vars

\* The files of the store the last operation was on.
FilesOf(op) == IF op \in {"html_save", "html_load"} THEN html_files ELSE image_files

(***************************************************************************)
(* C25: load(filename) of either store returns None only when the file is  *)
(* absent; when the file exists and reading it fails, the caller gets an   *)
(* error, not None.                                                        *)
(***************************************************************************)
C25_ReadErrorSurfaced ==
    last.op \in {"html_load", "image_load"} =>
        /\ (last.ret.kind = "return" /\ last.ret.text = None
                => last.arg \notin FilesOf(last.op))
        /\ (last.arg \in FilesOf(last.op) /\ ~last.io_ok => last.ret.kind = "raise")


(***************************************************************************)
(* url_to_filename (utils/helpers.py:6-32). A URL is the sequence of its   *)
(* characters after "https://oldschool.runescape.wiki"; it starts with     *)
(* "/". The characters told apart are the ones urlparse and the two splits *)
(* look at, a letter, and a percent-encoded character, "%25", which        *)
(* unquote would turn into "%".                                            *)
(***************************************************************************)
UrlChars == {"a", "%25", "/", "?", "#", ";"}
Urls == {<<"/">> \o t : t \in SeqsUpTo(UrlChars, MaxUrlLen)}
Extensions == {None, Some("html")}

\* str.find(c, start): the first index of c at or after start, 0 where Python gives -1.
find(str, c, start) ==
    IF \E i \in start..Len(str) : str[i] = c
    THEN CHOOSE i \in start..Len(str) : str[i] = c /\ \A j \in start..(i - 1) : str[j] # c
    ELSE 0

\* str.rfind(c): the last index of c, 0 where Python gives -1.
rfind(str, c) ==
    IF \E i \in 1..Len(str) : str[i] = c
    THEN CHOOSE i \in 1..Len(str) : str[i] = c /\ \A j \in (i + 1)..Len(str) : str[j] # c
    ELSE 0

\* str.split(c, 1)[0] and str.split(c)[0]: what comes before the first c.
before_first(str, c) ==
    IF find(str, c, 1) = 0 THEN str ELSE SubSeq(str, 1, find(str, c, 1) - 1)

\* str.split(c)[-1]: what comes after the last c.
after_last(str, c) == SubSeq(str, rfind(str, c) + 1, Len(str))

\* urllib.parse._splitparams: the path up to the first ";" of its last segment.
splitparams(path) ==
    IF find(path, ";", IF rfind(path, "/") = 0 THEN 1 ELSE rfind(path, "/")) = 0
    THEN path
    ELSE SubSeq(path, 1,
                find(path, ";", IF rfind(path, "/") = 0 THEN 1 ELSE rfind(path, "/")) - 1)

\* urlparse(url).path for an https URL: urlsplit cuts the fragment at the
\* first "#", then the query at the first "?", and urlparse then cuts the
\* parameters of the last segment.
urlparse_path(url) == splitparams(before_first(before_first(url, "#"), "?"))

\* Lines 22-32.
url_to_filename(url, extension) ==
    LET filename == before_first(after_last(urlparse_path(url), "/"), "#")
        named == IF filename = <<>> THEN <<"unnamed">> ELSE filename
    IN  IF extension = None THEN named ELSE named \o <<".", extension[1]>>

(***************************************************************************)
(* FilenameSpec: url_to_filename is applied once to a URL and an extension *)
(* chosen at the start.                                                    *)
(***************************************************************************)
FilenameInit ==
    /\ FrontierEmpty /\ ConcIdle /\ FetchIdle /\ CrawlIdle /\ StoreIdle
    /\ last \in {[op |-> "input", url |-> u, extension |-> e] : u \in Urls, e \in Extensions}

UrlToFilename ==
    /\ last.op = "input"
    /\ last' = [op |-> "url_to_filename", url |-> last.url, extension |-> last.extension,
                ret |-> url_to_filename(last.url, last.extension)]
    /\ UNCHANGED <<frontierVars, concVars, fetchVars, crawlVars, storeVars>>

FilenameNext ==
    \/ UrlToFilename

FilenameSpec == FilenameInit /\ [][FilenameNext]_vars

\* The last segment of a URL's path: the path ends before the first "?" or
\* "#", and its last segment is what follows its last "/".
PathOf(url) ==
    IF \E i \in 1..Len(url) : url[i] \in {"?", "#"}
    THEN SubSeq(url, 1, (CHOOSE i \in 1..Len(url) :
                            url[i] \in {"?", "#"} /\ \A j \in 1..(i - 1) : url[j] \notin {"?", "#"}) - 1)
    ELSE url
LastSegment(url) == after_last(PathOf(url), "/")

(***************************************************************************)
(* C26: url_to_filename returns the last path segment of the URL, its      *)
(* percent-encoded characters as they are, query and fragment removed,     *)
(* "unnamed" in place of an empty segment, followed by ".html" by default  *)
(* and by nothing when the extension is None.                              *)
(***************************************************************************)
C26_LastSegmentKept ==
    last.op = "url_to_filename" =>
        last.ret = (IF LastSegment(last.url) = <<>> THEN <<"unnamed">>
                    ELSE LastSegment(last.url))
                   \o (IF last.extension = None THEN <<>> ELSE <<".", last.extension[1]>>)


(***************************************************************************)
(* parse_npc_list_page (crawler.py:50-90). Of a list page the model keeps  *)
(* what the selectors look at: its div.mw-category containers in document  *)
(* order, each the sequence of its list items, an item being the href of   *)
(* its first anchor; and its anchors with the text "next page". An href is *)
(* None (no attribute), Some(<<>>) (the empty string) or Some of a path    *)
(* relative to the wiki.                                                   *)
(***************************************************************************)
base_url == "https://oldschool.runescape.wiki"

ItemHrefs == {None, Some(<<>>)} \cup {Some(<<"/w/", u>>) : u \in URLs}
NextHrefs == {None, Some(<<>>), Some(<<"/w/Category:Non-player_characters?pagefrom=", "A">>)}
CategoryDivs == SeqsUpTo(ItemHrefs, MaxItems)
ListPageHtml ==
    [divs : SeqsUpTo(CategoryDivs, 2), next_anchors : SeqsUpTo(NextHrefs, 1)]

\* `link and link.get("href")`: the attribute is there and not empty.
has_href(href) == href # None /\ href[1] # <<>>

\* urljoin(self.base_url, href) for a path relative to the host.
urljoin(base, href) == <<base>> \o href

\* Line 69 taking the first container.
content_div_first(content_divs) == content_divs[1]

\* Line 69: the second container when there is more than one.
content_div(content_divs) ==
    IF Len(content_divs) > 1 THEN content_divs[2] ELSE content_divs[1]

\* Lines 72-76: one URL for each list item whose anchor has an href, in order.
links_of(div) ==
    LET linked == SelectSeq(div, has_href)
    IN  [i \in 1..Len(linked) |-> urljoin(base_url, linked[i][1])]

\* Lines 81-88: the first "next page" anchor of the document decides.
next_page_of(next_anchors) ==
    IF next_anchors # <<>> /\ has_href(next_anchors[1])
    THEN Some(urljoin(base_url, next_anchors[1][1]))
    ELSE None

parse_npc_list_page(html) ==
    IF html.divs = <<>>
    THEN [npc_urls |-> <<>>, next_page_url |-> None]
    ELSE [npc_urls |-> links_of(content_div(html.divs)),
          next_page_url |-> next_page_of(html.next_anchors)]

(***************************************************************************)
(* ParseSpec: parse_npc_list_page is applied once to a page chosen at the  *)
(* start.                                                                  *)
(***************************************************************************)
ParseInit ==
    /\ FrontierEmpty /\ ConcIdle /\ FetchIdle /\ CrawlIdle /\ StoreIdle
    /\ last \in {[op |-> "input", html |-> h] : h \in ListPageHtml}

ParseNpcListPage ==
    /\ last.op = "input"
    /\ last' = [op |-> "parse_npc_list_page", html |-> last.html,
                ret |-> parse_npc_list_page(last.html)]
    /\ UNCHANGED <<frontierVars, concVars, fetchVars, crawlVars, storeVars>>

ParseNext ==
    \/ ParseNpcListPage

ParseSpec == ParseInit /\ [][ParseNext]_vars

\* The absolute URLs a container links to.
LinkedFrom(div) ==
    {<<base_url>> \o div[i][1] : i \in {j \in 1..Len(div) : has_href(div[j])}}

(***************************************************************************)
(* C27: for a page with two category containers parse_npc_list_page        *)
(* returns the links of the second container, made absolute against the    *)
(* base URL, one for each linking item and in the items' order, and none   *)
(* that only the first container has; next_page_url is the absolute href   *)
(* of the "next page" anchor when the page has one, and None otherwise.    *)
(* For a page without a container it returns no link and no next page.     *)
(***************************************************************************)
C27_SecondContainerOnly ==
    last.op = "parse_npc_list_page" =>
        /\ Len(last.html.divs) = 2 =>
               /\ Range(last.ret.npc_urls) = LinkedFrom(last.html.divs[2])
               /\ Len(last.ret.npc_urls) =
                      Cardinality({j \in 1..Len(last.html.divs[2]) :
                                      has_href(last.html.divs[2][j])})
               /\ \A i, j \in 1..Len(last.ret.npc_urls) :
                      i < j => \E m, n \in 1..Len(last.html.divs[2]) :
                                  /\ m < n
                                  /\ last.ret.npc_urls[i] = <<base_url>> \o last.html.divs[2][m][1]
                                  /\ last.ret.npc_urls[j] = <<base_url>> \o last.html.divs[2][n][1]
               /\ last.ret.next_page_url =
                      (IF \E k \in 1..Len(last.html.next_anchors) :
                             has_href(last.html.next_anchors[k])
                       THEN Some(<<base_url>> \o
                                 last.html.next_anchors[
                                     CHOOSE k \in 1..Len(last.html.next_anchors) :
                                         has_href(last.html.next_anchors[k])][1])
                       ELSE None)
        /\ Len(last.html.divs) = 0 =>
               last.ret = [npc_urls |-> <<>>, next_page_url |-> None]

\* C27's case: the two containers link to different pages, the page has a
\* "next page" anchor, and the result holds the second container's link only.
C27_Witness ==
    /\ last.op = "parse_npc_list_page"
    /\ Len(last.html.divs) = 2
    /\ LinkedFrom(last.html.divs[1]) # {}
    /\ LinkedFrom(last.html.divs[2]) # {}
    /\ LinkedFrom(last.html.divs[1]) \cap LinkedFrom(last.html.divs[2]) = {}
    /\ Len(last.ret.npc_urls) = 1
    /\ last.ret.next_page_url # None


(***************************************************************************)
(* C28: the image outcome in the record of a fetched page. When the upsert *)
(* of the success path commits, the record has status success; with no     *)
(* image found it has image_status not_found and has_image false; with the *)
(* image found and downloaded it has has_image true, image_status success, *)
(* the image's URL and file name and the size of the stored file; no       *)
(* record gets has_image true in any other way; and mark_visited, which    *)
(* follows, puts the URL into visited and returns a successful result.     *)
(***************************************************************************)
C28_ImageOutcomeState ==
    pc \in {"page_upsert", "page_visited"} =>
        /\ loc.image_status \in {"not_found", "found", "success"}
        /\ loc.has_image = (loc.image_status = "success")
        /\ loc.image_status = "success" => image_url_of(npc_url[1]) \in image_files
        /\ pc = "page_visited" =>
               /\ table[npc_url[1]] # None
               /\ Row(npc_url[1]).status = "success"
               /\ Row(npc_url[1]).has_image = loc.has_image
               /\ Row(npc_url[1]).image_status = Some(loc.image_status)

C28_ImageOutcomeStep ==
    /\ (pc = "page_upsert" /\ pc' = "page_visited") =>
          /\ table'[npc_url[1]] # None
          /\ table'[npc_url[1]][1].status = "success"
          /\ loc.image_status = "not_found" =>
                 /\ ~table'[npc_url[1]][1].has_image
                 /\ table'[npc_url[1]][1].image_status = Some("not_found")
          /\ loc.image_status = "success" =>
                 /\ table'[npc_url[1]][1].has_image
                 /\ table'[npc_url[1]][1].image_status = Some("success")
                 /\ table'[npc_url[1]][1].image_url = Some(image_url_of(npc_url[1]))
                 /\ table'[npc_url[1]][1].image_filename # None
                 /\ table'[npc_url[1]][1].image_size = image_size_of(npc_url[1])
          /\ \A u \in URLs \ {npc_url[1]} : table'[u] = table[u]
    /\ \A u \in URLs :
          (table'[u] # table[u] /\ table'[u] # None /\ table'[u][1].has_image)
              => /\ pc = "page_upsert"
                 /\ u = npc_url[1]
                 /\ loc.image_status = "success"
    /\ (pc = "page_visited" /\ pc' \notin {"page_visited", "ex_mark", "close"}) =>
          /\ pc' = "drain"
          /\ npc_url[1] \in visited'
          /\ table' = table
          /\ failed' = failed
          /\ result'[1].html_success
          /\ result'[1].image_success = Row(npc_url[1]).has_image

C28_ImageOutcomeRecorded == []C28_ImageOutcomeState /\ [][C28_ImageOutcomeStep]_vars

\* C28's case: the pipeline has ended for a page whose image was downloaded,
\* while the other page is visited with a record saying not_found.
C28_Witness ==
    /\ pc = "drain"
    /\ npc_url # None
    /\ result = Some(CrawlResult(TRUE, TRUE, None))
    /\ npc_url[1] \in visited
    /\ table[npc_url[1]] # None
    /\ Row(npc_url[1]).has_image
    /\ Row(npc_url[1]).image_size = image_size_of(npc_url[1])
    /\ \E v \in visited \ {npc_url[1]} :
          /\ table[v] # None
          /\ Row(v).status = "success"
          /\ Row(v).image_status = Some("not_found")
          /\ ~Row(v).has_image


(***************************************************************************)
(* C29: the branch of `except Exception`. An exception that is no          *)
(* FetchError, raised at any line of the try of crawl_npc_page, changes    *)
(* nothing of the frontier and of the table on its way to the handler;     *)
(* the handler records the URL in failed with the exception's text and     *)
(* returns a failed result, which is counted as one more failure; the URL  *)
(* is not put back into pending and not marked visited, and the handler    *)
(* writes no record.                                                       *)
(***************************************************************************)
C29_ExceptionState ==
    pc = "ex_mark" =>
        /\ loc.branch = "Exception"
        /\ loc.error \notin FetchCauses
        /\ npc_url[1] \notin queue
        /\ npc_url[1] \notin visited

C29_ExceptionStep ==
    /\ (pc # "ex_mark" /\ pc' = "ex_mark") =>
          /\ pc \in {"page_save", "page_image", "page_upsert", "page_visited"}
          /\ queue' = queue /\ visited' = visited /\ failed' = failed
          /\ table' = table
          /\ totals' = totals
    /\ (pc = "ex_mark" /\ pc' \notin {"ex_mark", "close"}) =>
          /\ pc' = "drain"
          /\ failed' = [failed EXCEPT ![npc_url[1]] = Some(loc.error)]
          /\ result' = Some(CrawlResult(FALSE, FALSE, Some(loc.error)))
          /\ totals'.crawled = totals.crawled + 1
          /\ totals'.failed = totals.failed + 1
          /\ totals'.successful = totals.successful
          /\ queue' = queue /\ visited' = visited /\ image_queue' = image_queue
          /\ table' = table

C29_ExceptionBranch == []C29_ExceptionState /\ [][C29_ExceptionStep]_vars

\* C29's case: the handler has run for a URL whose page was fetched and could
\* not be saved; the URL is in failed only, and has no record.
C29_Witness ==
    /\ pc = "drain"
    /\ npc_url # None
    /\ result = Some(CrawlResult(FALSE, FALSE, Some("Exception")))
    /\ failed[npc_url[1]] = Some("Exception")
    /\ npc_url[1] \notin queue \cup visited
    /\ table[npc_url[1]] = None
    /\ totals.failed = 1 /\ totals.crawled = 1

\* crawl_npc_list has left its loop through one of its except clauses: it has
\* a page left to fetch and no cap that stops it.
EndedByError ==
    /\ pc = "list_done"
    /\ current_url # None
    /\ ~cap_reached(max_pages, pages_crawled)

(***************************************************************************)
(* C30: the enumeration takes nothing back. No step of crawl_npc_list      *)
(* removes a URL from pending or changes visited or failed, the step that  *)
(* ends it on a fetch or parse error included, so what it has queued is    *)
(* still pending when it returns; and run() goes on to the draining phase  *)
(* with pending as the enumeration left it.                                *)
(***************************************************************************)
C30_EnumerationState ==
    pc \in {"list", "list_done"} => Cardinality(queue) >= total_queued

C30_EnumerationStep ==
    /\ pc \in {"list", "list_done"} =>
          /\ queue \subseteq queue'
          /\ visited' = visited
          /\ failed' = failed
    /\ (pc = "list" /\ pc' = "list_done" /\ EndedByError' /\ fault' = fault) =>
          /\ queue' = queue
          /\ total_queued' = total_queued
    /\ (pc = "list_done" /\ pc' \notin {"list_done", "close"}) =>
          /\ pc' = "drain"
          /\ queue' = queue

C30_EnumerationKeepsQueue == []C30_EnumerationState /\ [][C30_EnumerationStep]_vars

\* C30's case: the second list page could not be fetched or parsed, and the
\* enumeration ends with the URLs of the first page pending.
C30_Witness ==
    /\ EndedByError
    /\ fault = None
    /\ runs = 1
    /\ pages_crawled = 2
    /\ total_queued = 2
    /\ Cardinality(queue) = 2


(***************************************************************************)
(* C31: a failure local to one URL does not stop the crawl. Whatever the   *)
(* result of crawl_npc_page (fetch failure, no image, failed download),    *)
(* control is back at the head of the drain loop; from there the loop is   *)
(* left only with the cap reached or pending empty, and otherwise a        *)
(* pending URL is dequeued and its pipeline started; under the scheduling  *)
(* of CleanupSpec this happens eventually, unless the scrape is            *)
(* interrupted or Redis fails.                                             *)
(***************************************************************************)
C31_DrainStep ==
    /\ (pc \in {"page_visited", "fe_mark", "ex_mark"}
            /\ pc' \notin {pc, "ex_mark", "close"}) => pc' = "drain"
    /\ (pc # "return" /\ pc' = "return") =>
          /\ pc = "drain"
          /\ cap_reached(max_npcs, totals.crawled) \/ queue = {}
    /\ (pc = "drain" /\ pc' \notin {"drain", "close"}) =>
          IF cap_reached(max_npcs, totals.crawled) \/ queue = {}
          THEN pc' = "return"
          ELSE /\ pc' = "page_fetch"
               /\ npc_url' # None
               /\ npc_url'[1] \in queue
               /\ queue' = queue \ {npc_url'[1]}

C31_DrainGoesOn ==
    /\ [][C31_DrainStep]_vars
    /\ (pc = "drain" /\ queue # {} /\ ~cap_reached(max_npcs, totals.crawled))
           ~> (pc \in {"page_fetch", "close"})

\* C31's case: after a page whose fetch failed, the other URL has been
\* dequeued and its pipeline has started.
C31_Witness ==
    /\ pc = "page_fetch"
    /\ result # None
    /\ result[1].html_success = FALSE
    /\ totals.failed = 1
    /\ \E u \in URLs \ {npc_url[1]} : failed[u] # None /\ failed[u][1] \in FetchCauses


(***************************************************************************)
(* C32: the phases of one run() follow one another. A URL leaves pending   *)
(* only at the head of the drain loop and enters pending only in the       *)
(* enumeration loop; the enumeration starts the run, the drain loop is     *)
(* entered from the returned enumeration only, the statistics are built    *)
(* from the returned drain loop only, and the enumeration is not entered   *)
(* again in the same run.                                                  *)
(***************************************************************************)
C32_PhaseStep ==
    /\ ~(queue \subseteq queue') => pc = "drain"
    /\ ~(queue' \subseteq queue) => pc = "list"
    /\ (pc # "list" /\ pc' = "list") => pc = "idle"
    /\ (pc # "list_done" /\ pc' = "list_done") => pc = "list"
    /\ (pc # "drain" /\ pc' = "drain") => pc \in PipelinePcs \cup {"list_done"}
    /\ (pc \notin PipelinePcs /\ pc' \in PipelinePcs) => pc = "drain" /\ pc' = "page_fetch"
    /\ (pc # "return" /\ pc' = "return") => pc = "drain"
    /\ (final_stats = None /\ final_stats' # None) => pc = "return" /\ pc' = "close"

C32_PhasesSequential == [][C32_PhaseStep]_vars

\* C32's case: a run has gone through its three phases: two list pages, two
\* detail pages, and the statistics returned.
C32_Witness ==
    /\ pc = "close"
    /\ final_stats # None
    /\ final_stats[1].list_pages_crawled = 2
    /\ final_stats[1].crawled = 2
    /\ queue = {}


(***************************************************************************)
(* C33: the image retry queue is a set of its own that the crawl only      *)
(* adds to. The one step that changes it is the failed download of the     *)
(* page being processed, which adds that page's entry and leaves pending,  *)
(* visited and failed alone; no step of a run removes an entry; and the    *)
(* entry of a page whose download fails again is in the set once.          *)
(***************************************************************************)
C33_ImageQueueState ==
    /\ image_queue \subseteq {ImageData(u) : u \in URLs}
    /\ \A u \in URLs :
          Cardinality({d \in image_queue : d.page_url = u}) <= 1

C33_ImageQueueStep ==
    /\ image_queue \subseteq image_queue'
    /\ image_queue' # image_queue =>
          /\ pc = "page_image"
          /\ image_queue' = image_queue \cup {ImageData(npc_url[1])}
          /\ queue' = queue /\ visited' = visited /\ failed' = failed
    /\ (pc = "page_image" /\ pc' = "page_upsert" /\ loc'.image_status = "found") =>
          /\ ImageData(npc_url[1]) \in image_queue'
          /\ ImageData(npc_url[1]) \in image_queue => image_queue' = image_queue

C33_ImageQueueOnlyGrows == []C33_ImageQueueState /\ [][C33_ImageQueueStep]_vars

\* C33's case: the download of a page's image has failed in a second
\* pipeline for the page, whose record still says `found` from the first,
\* and the set holds the page's entry once, besides the other page's.
C33_Witness ==
    /\ pc = "page_upsert"
    /\ loc.image_status = "found"
    /\ table[npc_url[1]] # None
    /\ Row(npc_url[1]).image_status = Some("found")
    /\ image_queue = {ImageData(u) : u \in URLs}


(***************************************************************************)
(* C34: no dequeued URL is lost. Whenever the processing of the dequeued   *)
(* URL ends, by a return of crawl_npc_page, by an exception that leaves    *)
(* it, or by an interrupt, the URL is in visited or in failed.             *)
(***************************************************************************)
C34_EndStep ==
    (pc \in PipelinePcs /\ pc' \notin PipelinePcs) =>
        \/ npc_url[1] \in visited'
        \/ failed'[npc_url[1]] # None

C34_NoDequeuedUrlLost == [][C34_EndStep]_vars

(***************************************************************************)
(* C35: the record comes before visited. Every visited URL has a record    *)
(* with status success, and every URL whose record has status success has  *)
(* its HTML file in the HTML store.                                        *)
(***************************************************************************)
C35_RecordBeforeVisited ==
    /\ \A u \in visited : table[u] # None /\ Row(u).status = "success"
    /\ \A u \in URLs :
          (table[u] # None /\ Row(u).status = "success") => u \in html_files

\* C35's case: one URL is visited, with its success record and its file; the
\* other has a failed record, no file, and is not visited.
C35_Witness ==
    \E u, v \in URLs :
        /\ u \in visited /\ table[u] # None /\ Row(u).status = "success"
        /\ u \in html_files
        /\ v \notin visited /\ table[v] # None /\ Row(v).status = "failed"
        /\ v \notin html_files
        /\ pc = "idle"


(***************************************************************************)
(* C36: a failed URL stays eligible. An enumeration step that lists a URL  *)
(* which is in failed and not in visited leaves it pending, counting it as *)
(* newly queued when it was not pending before; and the mark_visited of a  *)
(* later successful crawl leaves the failed hash as it is, so the URL is   *)
(* still counted among the failed ones.                                    *)
(***************************************************************************)
C36_EligibleStep ==
    /\ (pc = "list" /\ pc' \in {"list", "list_done"} /\ fault' = None) =>
          /\ \A u \in Range(npc_links') :
                 (failed[u] # None /\ u \notin visited) => u \in queue'
          /\ total_queued' = total_queued + Cardinality(queue' \ queue)
          /\ queue' \ queue = {u \in Range(npc_links') : u \notin visited /\ u \notin queue}
    /\ (pc = "page_visited" /\ pc' = "drain") =>
          /\ npc_url[1] \in visited'
          /\ failed' = failed
          /\ hlen(failed') = hlen(failed)

C36_FailedStaysEligible == [][C36_EligibleStep]_vars

\* C36's case: a URL that failed in the first run has been queued again and
\* crawled with success by the second, and is now both visited and failed.
C36_Witness ==
    /\ runs = 2
    /\ pc = "drain"
    /\ npc_url # None
    /\ result = Some(CrawlResult(TRUE, FALSE, None))
    /\ npc_url[1] \in visited
    /\ failed[npc_url[1]] # None
    /\ hlen(failed) = 1
    /\ total_queued = 1

image_get_next_retry(outcome) ==
    CASE outcome = "2xx" -> "save"
      [] outcome \in Retryable -> "get"
      [] OTHER -> "raised"

image_get_next(outcome) ==
    CASE outcome = "2xx" -> "save"
      [] outcome \in Retryable -> "queue"
      [] OTHER -> "raised"

ImageInit ==
    /\ queue = {} /\ visited = {} /\ failed = NoFailed
    /\ image_queue \in SUBSET {ImageData(u) : u \in URLs}
    /\ last \in {[op |-> "page", url |-> u, found |-> f] : u \in URLs, f \in BOOLEAN}
    /\ retries \in 0..MaxRetries
    /\ attempt = 0
    /\ fpc = "extract"
    /\ response = "unbound"
    /\ outcomes = <<>>
    /\ gets = 0
    /\ slept = FALSE
    /\ unslept_gets = 0
    /\ fresult = None
    /\ ConcIdle /\ CrawlIdle /\ StoreIdle

\* Lines 113-116: extract_image_url; the download is entered only for a
\* result that is found and has an image URL.
IExtract ==
    /\ fpc = "extract"
    /\ fpc' = IF last.found THEN "get" ELSE "done"
    /\ UNCHANGED <<frontierVars, queueVars, concVars, retries, attempt, response, outcomes,
                   gets, slept, unslept_gets, fresult, crawlVars, storeVars>>

\* image_handler.py line 59: one `await self.http_client.get(image_url)` on the
\* handler's own client, with raise_for_status; nothing sleeps before it.
IGet(outcome) ==
    /\ fpc = "get"
    /\ gets' = gets + 1
    /\ unslept_gets' = IF slept THEN unslept_gets ELSE unslept_gets + 1
    /\ outcomes' = Append(outcomes, outcome)
    /\ fpc' = image_get_next(outcome)
    /\ fresult' = CASE image_get_next(outcome) = "queue" -> Returned(FALSE)
                    [] image_get_next(outcome) = "raised" -> Raised("Exception", outcome)
                    [] OTHER -> fresult
    /\ UNCHANGED <<frontierVars, queueVars, concVars, retries, attempt, response, slept,
                   crawlVars, storeVars>>

\* image_handler.py lines 67-69: image_store.save; its IOError is no
\* httpx.HTTPError and leaves download_npc_image.
ISave(written) ==
    /\ fpc = "save"
    /\ image_files' = image_save(image_files, image_url_of(last.url), written).files
    /\ fresult' = IF written THEN Returned(TRUE) ELSE Raised("IOError", "Failed to save image")
    /\ fpc' = IF written THEN "done" ELSE "raised"
    /\ UNCHANGED <<frontierVars, queueVars, concVars, retries, attempt, response, outcomes,
                   gets, slept, unslept_gets, crawlRest, html_files, storeVars>>

\* crawler.py lines 128-131: a download that returned success=False puts the
\* image data into the image retry queue.
IQueue ==
    /\ fpc = "queue"
    /\ image_queue' = add_to_image_queue(image_queue, ImageData(last.url)).image_queue
    /\ fpc' = "done"
    /\ UNCHANGED <<queue, visited, failed, queueVars, concVars, retries, attempt, response,
                   outcomes, gets, slept, unslept_gets, fresult, crawlVars, storeVars>>

ImageNext ==
    \/ IExtract
    \/ \E outcome \in AttemptOutcomes : IGet(outcome)
    \/ \E written \in BOOLEAN : ISave(written)
    \/ IQueue

ImageSpec == ImageInit /\ [][ImageNext]_vars

\* C38: the image download is attempted at most once per pipeline run: the
\* step never sleeps and never enters the retry loop of fetch_page, it issues
\* no GET when no image is found and exactly one when one is found, whatever
\* the retry budget of the page fetcher, and a GET that failed with an HTTP
\* error is followed by no other GET and by the entry in the image retry queue.
C38_SingleImageGet ==
    /\ gets <= 1
    /\ slept = FALSE
    /\ attempt = 0
    /\ unslept_gets = gets
    /\ (fpc \in {"extract", "get"} => gets = 0)
    /\ (fpc \in {"save", "queue", "done", "raised"} => (gets = 1 <=> last.found))
    /\ (fpc = "queue" => (outcomes[1] \in Retryable /\ fresult = Returned(FALSE)))
    /\ (fpc = "done" /\ gets = 1 /\ outcomes[1] \in Retryable
          => /\ ImageData(last.url) \in image_queue
             /\ fresult = Returned(FALSE)
             /\ image_files = {})

C38_Witness ==
    /\ fpc = "done"
    /\ retries = MaxRetries
    /\ last.found
    /\ gets = 1
    /\ outcomes = <<"TimeoutException">>
    /\ image_queue = {ImageData(last.url)}

(***************************************************************************)
(* C39: a cap of 0 is not a cap. Under max_pages = 0, as under no cap, an   *)
(* iteration of crawl_npc_list that parsed its page and queued its links   *)
(* ends the enumeration only when the page has no next page; under         *)
(* max_npcs = 0, as under no cap, crawl_all_npcs returns only when pending *)
(* is empty.                                                               *)
(***************************************************************************)
C39_ZeroCapStep ==
    /\ (/\ max_pages \in {None, Some(0)}
        /\ pc = "list" /\ pc' = "list_done"
        /\ fault' = None
        /\ npc_links' # npc_links)
          => current_url' = None
    /\ (/\ max_npcs \in {None, Some(0)}
        /\ pc = "drain" /\ pc' = "return")
          => queue = {}

C40_FailedRowsCarryNoImage ==
    \A u \in URLs :
        (table[u] # None /\ Row(u).status = "failed")
            => /\ Row(u).has_image = FALSE
               /\ Row(u).html_file_size = 0
               /\ Row(u).image_size = 0

\* A failed row written over a successful one: the image url and file name
\* of the earlier download are still in it.
C40_Witness ==
    \E u \in URLs :
        /\ table[u] # None
        /\ Row(u).status = "failed"
        /\ Row(u).image_url # None
        /\ Row(u).image_filename # None
        /\ Row(u).has_image = FALSE
        /\ Row(u).image_size = 0

=============================================================================
